---- MODULE Spec2Model ----
(***************************************************************************)
(* A model of the iterative-physics engine: the tick orchestrator          *)
(* (engine/src/lib.rs), the integration helpers (engine/src/math/mod.rs)   *)
(* and the symbolic evaluator (engine/src/math/solve.rs).                  *)
(*                                                                         *)
(* Scalars.  The program computes in IEEE-754 doubles.  The model computes *)
(* in exact extended rationals: a scalar is a pair <<n, d>> in lowest      *)
(* terms with d > 0, or one of the three specials <<1, 0>> (+inf),         *)
(* <<-1, 0>> (-inf) and <<0, 0>> (NaN), combined by the IEEE rules.  The   *)
(* inputs of the model are small dyadic rationals, for which the double    *)
(* operations of the integration and collision code are exact; rounding    *)
(* and the sign of zero are not modelled (every divisor that can be zero:  *)
(* a mass, a moment of inertia, a slope, is a positive zero in the code).  *)
(*                                                                         *)
(* Strings.  A name is a sequence of one-character strings, so that        *)
(* format!("{}_{}", a, b) is a concatenation the model performs.           *)
(***************************************************************************)
EXTENDS Integers, Sequences, FiniteSets, TLC

\* ------------------------------------------------------------- scalars

Abs(i) == IF i < 0 THEN -i ELSE i

Sign(i) == IF i < 0 THEN -1 ELSE IF i > 0 THEN 1 ELSE 0

RECURSIVE Gcd(_, _)
Gcd(a, b) == IF b = 0 THEN a ELSE Gcd(b, a % b)

\* The scalar n/d in lowest terms (d # 0).
Q(n, d) ==
    LET g == Gcd(Abs(n), Abs(d))
        s == IF d < 0 THEN -1 ELSE 1
    IN  <<s * (n \div g), s * (d \div g)>>

Int2F(i) == <<i, 1>>

NaN == <<0, 0>>

Inf(s) == <<s, 0>>

Zero == <<0, 1>>

One == <<1, 1>>

IsNaN(x) == x = NaN

IsInf(x) == x[2] = 0 /\ x[1] # 0

IsFinite(x) == x[2] # 0

\* f64 negation
FNeg(x) == <<-x[1], x[2]>>

\* f64 addition
FAdd(x, y) ==
    IF IsNaN(x) \/ IsNaN(y) THEN NaN
    ELSE IF IsInf(x) /\ IsInf(y) THEN (IF x = y THEN x ELSE NaN)
    ELSE IF IsInf(x) THEN x
    ELSE IF IsInf(y) THEN y
    ELSE LET g == Gcd(x[2], y[2])
         IN  Q(x[1] * (y[2] \div g) + y[1] * (x[2] \div g), (x[2] \div g) * y[2])

FSub(x, y) == FAdd(x, FNeg(y))

\* f64 multiplication
FMul(x, y) ==
    IF IsNaN(x) \/ IsNaN(y) THEN NaN
    ELSE IF IsInf(x) \/ IsInf(y)
         THEN (IF x[1] = 0 \/ y[1] = 0 THEN NaN ELSE Inf(Sign(x[1]) * Sign(y[1])))
    ELSE LET a == Q(x[1], y[2])
             b == Q(y[1], x[2])
         IN  <<a[1] * b[1], a[2] * b[2]>>

\* f64 division (a zero divisor is +0.0)
FDiv(x, y) ==
    IF IsNaN(x) \/ IsNaN(y) THEN NaN
    ELSE IF IsInf(x) THEN (IF IsInf(y) THEN NaN
                           ELSE IF y[1] < 0 THEN FNeg(x) ELSE x)
    ELSE IF IsInf(y) THEN Zero
    ELSE IF y[1] = 0 THEN (IF x[1] = 0 THEN NaN ELSE Inf(Sign(x[1])))
    ELSE FMul(x, Q(y[2], y[1]))

\* f64 comparisons: every comparison with NaN is false
FLt(x, y) ==
    /\ ~IsNaN(x) /\ ~IsNaN(y)
    /\ IF IsInf(x) \/ IsInf(y)
       THEN (x # y /\ (x = Inf(-1) \/ y = Inf(1)))
       ELSE x[1] * y[2] < y[1] * x[2]

FGt(x, y) == FLt(y, x)

FEq(x, y) == ~IsNaN(x) /\ ~IsNaN(y) /\ x = y

FAbs(x) == <<Abs(x[1]), x[2]>>

\* f64::powi / powf with a small non-negative integer exponent
RECURSIVE FPowNat(_, _)
FPowNat(x, k) == IF k = 0 THEN One ELSE FMul(x, FPowNat(x, k - 1))

\* x.powf(y); the expressions of the model use integer exponents only (any
\* other exponent is outside the scalars of the model and yields NaN here)
FPow(x, y) ==
    IF IsNaN(y) THEN NaN
    ELSE IF y[2] = 1 /\ y[1] >= 0 THEN FPowNat(x, y[1])
    ELSE IF y[2] = 1 THEN FDiv(One, FPowNat(x, -y[1]))
    ELSE NaN

\* f64::sqrt on the squares of rationals (the only arguments the model
\* passes; CHOOSE is undefined, and TLC stops, on any other)
RECURSIVE ISqrtIn(_, _, _)
ISqrtIn(n, lo, hi) ==
    IF lo >= hi THEN lo
    ELSE LET mid == (lo + hi + 1) \div 2
         IN  IF mid * mid <= n THEN ISqrtIn(n, mid, hi) ELSE ISqrtIn(n, lo, mid - 1)

ISqrt(n) ==
    LET r == ISqrtIn(n, 0, IF n < 46340 THEN n ELSE 46340)
    IN  CHOOSE x \in {r} : x * x = n

FSqrt(x) ==
    IF IsNaN(x) \/ x[1] < 0 THEN NaN
    ELSE IF IsInf(x) THEN x
    ELSE <<ISqrt(x[1]), ISqrt(x[2])>>

\* ------------------------------------------------------------- vectors
\* Column<M>: a sequence of M scalars.

\* Matrix::empty
VEmpty(dof) == [i \in 1..dof |-> Zero]

\* Vector::new: InvalidDimensions unless the length is the dof
VNew(dof, value) ==
    IF Len(value) = dof THEN [ok |-> TRUE, val |-> value]
    ELSE [ok |-> FALSE, kind |-> [tag |-> "InvalidDimensions"]]

\* Matrix::plus
VPlus(a, b) == [i \in DOMAIN a |-> FAdd(a[i], b[i])]

\* Matrix::scale
VScale(a, scalar) == [i \in DOMAIN a |-> FMul(scalar, a[i])]

RECURSIVE FSum(_)
FSum(s) == IF s = <<>> THEN Zero ELSE FAdd(FSum(SubSeq(s, 1, Len(s) - 1)), s[Len(s)])

\* Vector::dot
VDot(a, b) == FSum([i \in DOMAIN a |-> FMul(a[i], b[i])])

\* Vector::magnitude
VMagnitude(a) == FSqrt(FSum([i \in DOMAIN a |-> FPowNat(a[i], 2)]))

\* Vector::unit: the zero vector stays zero
VUnit(a) ==
    LET x == VMagnitude(a)
    IN  IF FEq(x, Zero) THEN VEmpty(Len(a)) ELSE VScale(a, FDiv(One, x))

VFinite(a) == \A i \in DOMAIN a : IsFinite(a[i])

\* Space2D
LINEAR_DOF == 2

ANGULAR_DOF == 1

LINEAR_BASES ==
    << [name |-> <<"h", "a", "t", "i">>, axis |-> <<"x">>],
       [name |-> <<"h", "a", "t", "j">>, axis |-> <<"y">>] >>

ANGULAR_BASES ==
    << [name |-> <<"h", "a", "t", "k">>, axis |-> <<"t", "h", "e", "t", "a">>] >>

\* Space2D::cross_both
cross_both(w, r) == << FMul(FNeg(w[1]), r[2]), FMul(w[1], r[1]) >>

\* Space2D::cross_linear
cross_linear(a, b) == << FSub(FMul(a[1], b[2]), FMul(a[2], b[1])) >>

\* integration::leapfrog_displacement
leapfrog_displacement(delta, displacement, velocity, acceleration) ==
    LET vel == FMul(velocity, delta)
        accel == FMul(FMul(FDiv(One, Int2F(2)), acceleration), FPowNat(delta, 2))
    IN  FAdd(FAdd(displacement, vel), accel)

\* integration::leapfrog_velocity
leapfrog_velocity(delta, velocity, acceleration, next_acceleration) ==
    LET accel == FMul(FMul(FDiv(One, Int2F(2)), FAdd(acceleration, next_acceleration)), delta)
    IN  FAdd(velocity, accel)

\* --------------------------------------------------- symbolic evaluator
\* parse::Node
Num(v) == [type |-> "Number", value |-> v]

Var(name) == [type |-> "Variable", name |-> name]

Arith(operation, left, right) ==
    [type |-> "Arithmetic", operation |-> operation, left |-> left, right |-> right]

Fun(name, args) == [type |-> "Function", name |-> name, args |-> args]

Cmp(left, right) == [type |-> "Comparison", left |-> left, right |-> right]

\* err::EngineResult and err::ErrorKind
Ok(v) == [ok |-> TRUE, val |-> v]

Err(kind) == [ok |-> FALSE, kind |-> kind]

UnsatisfiedVariable(name) == [tag |-> "UnsatisfiedVariable", name |-> name]

UnsatisfiedFunction(name) == [tag |-> "UnsatisfiedFunction", name |-> name]

\* the record with expected and found taken for one another
WrongNumberOfArgumentsSwapped(name, expected, found) ==
    [tag |-> "WrongNumberOfArguments", name |-> name, expected |-> found, found |-> expected]

WrongNumberOfArguments(name, expected, found) ==
    [tag |-> "WrongNumberOfArguments", name |-> name, expected |-> expected, found |-> found]

UnexpectedComparison == [tag |-> "UnexpectedComparison"]

ExpectedComparison == [tag |-> "ExpectedComparison"]

RootFindingDepthExceeded == [tag |-> "RootFindingDepthExceeded"]

\* HashMap::insert and HashMap::get on a map held as a function
Insert(m, k, v) == [x \in (DOMAIN m) \cup {k} |-> IF x = k THEN v ELSE m[x]]

Has(m, k) == k \in DOMAIN m

EmptyMap == [x \in {} |-> Zero]

\* an analyze that leaves the Function names out
RECURSIVE analyze_without_functions(_)
RECURSIVE analyze_args_without_functions(_)
analyze_without_functions(node) ==
    CASE node.type = "Arithmetic" ->
           analyze_without_functions(node.left) \cup analyze_without_functions(node.right)
      [] node.type = "Variable" -> {node.name}
      [] node.type = "Function" -> analyze_args_without_functions(node.args)
      [] node.type = "Comparison" ->
           analyze_without_functions(node.left) \cup analyze_without_functions(node.right)
      [] OTHER -> {}

analyze_args_without_functions(args) ==
    IF args = <<>> THEN {}
    ELSE analyze_without_functions(Head(args)) \cup analyze_args_without_functions(Tail(args))

\* Environment::analyze: every Variable name and every Function name
RECURSIVE analyze(_)
RECURSIVE analyze_args(_)
analyze(node) ==
    CASE node.type = "Arithmetic" -> analyze(node.left) \cup analyze(node.right)
      [] node.type = "Variable" -> {node.name}
      [] node.type = "Function" -> {node.name} \cup analyze_args(node.args)
      [] node.type = "Comparison" -> analyze(node.left) \cup analyze(node.right)
      [] OTHER -> {}

analyze_args(args) ==
    IF args = <<>> THEN {} ELSE analyze(Head(args)) \cup analyze_args(Tail(args))

\* the width of Equation.id (u8)
U8_RANGE == 256

\* Function::Mathematical
Mathematical(node, arg_names) ==
    [kind |-> "Mathematical", node |-> node, arg_names |-> arg_names]

\* Function::Baked; call_site names the native function
Baked(call_site, expected) ==
    [kind |-> "Baked", call_site |-> call_site, expected |-> expected]

\* the parameter names of a function definition's left side, or "none"
\* (the Option<Vec<_>> collected in Environment::build)
params_of(args) ==
    IF \A i \in DOMAIN args : args[i].type = "Variable"
    THEN [some |-> TRUE, names |-> [i \in DOMAIN args |-> args[i].name]]
    ELSE [some |-> FALSE]

\* Environment::build, the state of its loop: the equations and the
\* functions so far and the next id.  `id += 1` on a u8 wraps where the
\* build has no overflow checks and panics where it has them.
BuildState(functions, constants, overflow_checks) ==
    [equations |-> <<>>, functions |-> functions, constants |-> constants, id |-> 0,
     overflow_checks |-> overflow_checks, panic |-> FALSE]

\* the macro eq!
eq_push(x, st) ==
    LET pushed == [st EXCEPT !.equations =
                      Append(@, [id |-> st.id, node |-> x, dependencies |-> analyze(x)])]
    IN  IF st.id + 1 = U8_RANGE /\ st.overflow_checks
        THEN [pushed EXCEPT !.panic = TRUE]
        ELSE [pushed EXCEPT !.id = (st.id + 1) % U8_RANGE]

\* a loop that stores an expression that is no Comparison as an equation
build_step_every(x, st) ==
    IF x.type = "Comparison" /\ x.left.type = "Function" /\ params_of(x.left.args).some
    THEN [st EXCEPT !.functions =
             Insert(@, x.left.name,
                    Mathematical(x.right, params_of(x.left.args).names))]
    ELSE eq_push(x, st)

\* Environment::build, one iteration of its loop: the parsed expression x
build_step(x, st) ==
    IF x.type = "Comparison"
    THEN IF x.left.type = "Function"
         THEN LET params == params_of(x.left.args)
              IN  IF params.some
                  THEN [st EXCEPT !.functions =
                           Insert(@, x.left.name, Mathematical(x.right, params.names))]
                  ELSE eq_push(x, st)
         ELSE eq_push(x, st)
    ELSE st

\* the Environment the loop ends with
Environment(st) ==
    [equations |-> st.equations, functions |-> st.functions, constants |-> st.constants]

\* Environment::build on the parsed expressions, from the one at index i on
RECURSIVE build_from(_, _, _)
build_from(expressions, i, st) ==
    IF i > Len(expressions) THEN Environment(st)
    ELSE build_from(expressions, i + 1, build_step(expressions[i], st))

\* Environment::build on parsed expressions (fewer than U8_RANGE of them,
\* where the overflow checks make no difference)
build(expressions, functions, constants) ==
    build_from(expressions, 1, BuildState(functions, constants, FALSE))

\* find_root's constants: EPSILON = 0.00001, MAX_DEPTH = 10000
EPSILON == Q(1, 100000)

MAX_DEPTH == 10000

\* A Frame is [environment, stack, local]; the memo map, which every clone of
\* a frame shares (Rc<RefCell<..>>), is threaded through the evaluation:
\* each operator takes the memo as it is and returns [r, memo], the result
\* and the memo as it has become.
Ret(r, memo) == [r |-> r, memo |-> memo]

\* Frame::push
push(frame, equation) ==
    [frame EXCEPT !.stack = @ \cup {equation.id}, !.local = EmptyMap]

\* Frame::visited
visited(frame, equation) == equation.id \in frame.stack

\* the native functions (call_site), at the arguments where the result is a
\* scalar of the model
CallSite(call_site, args) ==
    CASE call_site = "sqrt" -> FSqrt(args[1])
      [] call_site = "nrt" /\ args[2] = One -> args[1]
      [] call_site = "sin" /\ args[1] = Zero -> Zero
      [] call_site = "cos" /\ args[1] = Zero -> One
      [] call_site = "tan" /\ args[1] = Zero -> Zero
      [] call_site = "asin" /\ args[1] = Zero -> Zero
      [] call_site = "atan" /\ args[1] = Zero -> Zero
      [] call_site = "acos" /\ args[1] = One -> Zero
      [] call_site = "ln" /\ args[1] = One -> Zero
      [] call_site = "log" /\ args[1] = One /\ FGt(args[2], One) -> Zero

\* the arithmetic of Node::Arithmetic
Apply(operation, left, right) ==
    CASE operation = "Add" -> FAdd(left, right)
      [] operation = "Sub" -> FSub(left, right)
      [] operation = "Multi" -> FMul(left, right)
      [] operation = "Div" -> FDiv(left, right)
      [] operation = "Exp" -> FPow(left, right)

\* a selection that reports the last bubbled-up UnsatisfiedVariable
select_last_unsatisfied(name, resolutions) ==
    LET successes == SelectSeq(resolutions, LAMBDA x : x.tag = "Success")
        unsatisfied_variables ==
            SelectSeq(resolutions, LAMBDA x : x.tag = "UnsatisfiedVariable")
    IN  IF successes # <<>> THEN Ok(successes[1].val)
        ELSE IF unsatisfied_variables = <<>> THEN Err(UnsatisfiedVariable(name))
        ELSE Err(UnsatisfiedVariable(
                     unsatisfied_variables[Len(unsatisfied_variables)].name))

\* the outcome of the candidate equations of a variable, once every
\* candidate has been tried: the first Success, else the first bubbled-up
\* UnsatisfiedVariable, else the variable itself
select(name, resolutions) ==
    LET successes == SelectSeq(resolutions, LAMBDA x : x.tag = "Success")
        unsatisfied_variables ==
            SelectSeq(resolutions, LAMBDA x : x.tag = "UnsatisfiedVariable")
    IN  IF successes # <<>> THEN Ok(successes[1].val)
        ELSE IF unsatisfied_variables = <<>> THEN Err(UnsatisfiedVariable(name))
        ELSE Err(UnsatisfiedVariable(unsatisfied_variables[1].name))

RECURSIVE evaluate(_, _, _)
RECURSIVE evaluate_args(_, _, _, _)
RECURSIVE resolve(_, _, _, _, _)
RECURSIVE find_root_from(_, _, _, _, _, _)

\* find_root: slope and next, from x_i and x_i_epsilon
newton(last, x_i, x_i_epsilon) ==
    LET slope == FDiv(FSub(x_i_epsilon, x_i), EPSILON)
    IN  FSub(last, FDiv(x_i, slope))

\* a find_root that returns `next` and memoises nothing
find_root_next_unmemoised(node, target, last, next, frame, memo, after, i) ==
    IF FLt(FAbs(FSub(last, next)), EPSILON)
    THEN Ret(Ok(next), after)
    ELSE IF next = last /\ after = memo
    THEN Ret(Err(RootFindingDepthExceeded), after)
    ELSE find_root_from(node, target, next, frame, after, i + 1)

\* find_root, the end of iteration i: `next` is memoised and returned when it
\* is within EPSILON of `last`, else it is the next guess.  An iteration that
\* ends with the guess and the memo it began with (a NaN or an infinity)
\* repeats unchanged up to MAX_DEPTH, so it ends RootFindingDepthExceeded.
find_root_next(node, target, last, next, frame, memo, after, i) ==
    IF FLt(FAbs(FSub(last, next)), EPSILON)
    THEN Ret(Ok(next), Insert(after, target, next))
    ELSE IF next = last /\ after = memo
    THEN Ret(Err(RootFindingDepthExceeded), after)
    ELSE find_root_from(node, target, next, frame, after, i + 1)

\* find_root, iteration i after its second evaluation e2 (x_i_epsilon)
find_root_second(node, target, last, frame, memo, x_i, e2, i) ==
    IF ~e2.r.ok THEN e2
    ELSE find_root_next(node, target, last, newton(last, x_i, e2.r.val),
                        frame, memo, e2.memo, i)

\* find_root, iteration i after its first evaluation e1 (x_i)
find_root_first(node, target, last, frame, memo, e1, i) ==
    IF ~e1.r.ok THEN e1
    ELSE find_root_second(node, target, last, frame, memo, e1.r.val,
             evaluate(node,
                      [frame EXCEPT !.local = Insert(@, target, FAdd(last, EPSILON))],
                      e1.memo),
             i)

\* find_root: Newton's method, from iteration i on
find_root_from(node, target, last, frame, memo, i) ==
    IF i = MAX_DEPTH THEN Ret(Err(RootFindingDepthExceeded), memo)
    ELSE find_root_first(node, target, last, frame, memo,
             evaluate(node, [frame EXCEPT !.local = Insert(@, target, last)], memo),
             i)

find_root(node, target, guess, frame, memo) ==
    find_root_from(node, target, guess, frame, memo, 0)

\* Node::Variable, the match on the root of the first candidate: its
\* VariableResolution, then the candidates that follow; an error other than
\* UnsatisfiedVariable ends the evaluation
resolve_root(root, candidates, name, frame, resolutions) ==
    IF root.r.ok
    THEN resolve(Tail(candidates), name, frame, root.memo,
                 Append(resolutions, [tag |-> "Success", val |-> root.r.val]))
    ELSE IF root.r.kind.tag = "UnsatisfiedVariable"
    THEN resolve(Tail(candidates), name, frame, root.memo,
                 Append(resolutions, [tag |-> "UnsatisfiedVariable",
                                      name |-> root.r.kind.name]))
    ELSE root

\* the candidates of Node::Variable, in source order: every candidate is
\* tried (the map is collected before the selection)
resolve(candidates, name, frame, memo, resolutions) ==
    IF candidates = <<>> THEN Ret(select(name, resolutions), memo)
    ELSE
    LET eq == Head(candidates)
    IN  IF visited(frame, eq)
        THEN resolve(Tail(candidates), name, frame, memo,
                     Append(resolutions, [tag |-> "Ignore"]))
        ELSE IF eq.node.type # "Comparison" THEN Ret(Err(ExpectedComparison), memo)
        ELSE resolve_root(find_root(Arith("Sub", eq.node.left, eq.node.right), name,
                                    Zero, push(frame, eq), memo),
                          candidates, name, frame, resolutions)

\* the arguments of Node::Function, left to right, up to the first error
evaluate_args(args, frame, memo, values) ==
    IF args = <<>> THEN Ret(Ok(values), memo)
    ELSE LET e == evaluate(Head(args), frame, memo)
         IN  IF ~e.r.ok THEN e
             ELSE evaluate_args(Tail(args), frame, e.memo, Append(values, e.r.val))

\* a lookup that prefers the memo binding to the local one
lookup_memo_first(frame, memo, name) ==
    IF Has(memo, name) THEN [some |-> TRUE, val |-> memo[name]]
    ELSE IF Has(frame.local, name) THEN [some |-> TRUE, val |-> frame.local[name]]
    ELSE [some |-> FALSE]

\* Frame::lookup: the local binding, else the memo binding
lookup(frame, memo, name) ==
    IF Has(frame.local, name) THEN [some |-> TRUE, val |-> frame.local[name]]
    ELSE IF Has(memo, name) THEN [some |-> TRUE, val |-> memo[name]]
    ELSE [some |-> FALSE]

\* solve::evaluate
evaluate(node, frame, memo) ==
    CASE node.type = "Arithmetic" ->
           LET left == evaluate(node.left, frame, memo)
           IN  IF ~left.r.ok THEN left
               ELSE LET right == evaluate(node.right, frame, left.memo)
                    IN  IF ~right.r.ok THEN right
                        ELSE Ret(Ok(Apply(node.operation, left.r.val, right.r.val)),
                                 right.memo)
      [] node.type = "Number" -> Ret(Ok(node.value), memo)
      [] node.type = "Variable" ->
           LET found == lookup(frame, memo, node.name)
               env == frame.environment
           IN  IF found.some THEN Ret(Ok(found.val), memo)
               ELSE IF Has(env.constants, node.name)
               THEN Ret(Ok(env.constants[node.name]), memo)
               ELSE resolve(SelectSeq(env.equations,
                                      LAMBDA x : node.name \in x.dependencies),
                            node.name, frame, memo, <<>>)
      [] node.type = "Function" ->
           LET env == frame.environment
           IN  IF ~Has(env.functions, node.name)
               THEN Ret(Err(UnsatisfiedFunction(node.name)), memo)
               ELSE
               LET f == env.functions[node.name]
                   args == evaluate_args(node.args, frame, memo, <<>>)
               IN  IF ~args.r.ok THEN args
                   ELSE IF f.kind = "Mathematical"
                   THEN IF Len(args.r.val) # Len(f.arg_names)
                        THEN Ret(Err(WrongNumberOfArguments(node.name, Len(f.arg_names),
                                                            Len(args.r.val))), args.memo)
                        ELSE evaluate(f.node,
                                      [frame EXCEPT !.local =
                                          [n \in {f.arg_names[k] : k \in DOMAIN f.arg_names} |->
                                              LET last == CHOOSE k \in DOMAIN f.arg_names :
                                                            /\ f.arg_names[k] = n
                                                            /\ \A m \in DOMAIN f.arg_names :
                                                                 f.arg_names[m] = n => m <= k
                                              IN  args.r.val[last]]],
                                      args.memo)
                   ELSE IF Len(args.r.val) # f.expected
                        THEN Ret(Err(WrongNumberOfArguments(node.name, f.expected,
                                                            Len(args.r.val))), args.memo)
                        ELSE Ret(Ok(CallSite(f.call_site, args.r.val)), args.memo)
      [] node.type = "Comparison" -> Ret(Err(UnexpectedComparison), memo)

\* Environment::evaluate: the overrides become the memo of a fresh frame
env_evaluate(env, var, overrides) ==
    evaluate(Var(var),
             [environment |-> env, stack |-> {}, local |-> EmptyMap],
             overrides).r

\* ---------------------------------------------------------------- engine
\* format!("{}_{}", a, b)
Fmt(a, b) == a \o <<"_">> \o b

\* format!("v_{}_{}", a, b)
FmtV(a, b) == <<"v", "_">> \o a \o <<"_">> \o b

Bases(kind) == IF kind = "Linear" THEN LINEAR_BASES ELSE ANGULAR_BASES

Dof(kind) == IF kind = "Linear" THEN LINEAR_DOF ELSE ANGULAR_DOF

Other(kind) == IF kind = "Linear" THEN "Angular" ELSE "Linear"

\* the selector closures of eval!: |x| &x.linear and |x| &x.angular
Selector(kind, body) == IF kind = "Linear" THEN body.linear ELSE body.angular

\* the symbols of update_state!: "s", "v", "a" and "q", "omega", "alpha"
Symbols(kind) ==
    IF kind = "Linear" THEN << <<"s">>, <<"v">>, <<"a">> >>
    ELSE << <<"q">>, <<"o", "m", "e", "g", "a">>, <<"a", "l", "p", "h", "a">> >>

\* HashMap::insert of a sequence of <<key, value>> pairs, in order
RECURSIVE InsertAll(_, _)
InsertAll(m, kvs) ==
    IF kvs = <<>> THEN m
    ELSE InsertAll(Insert(m, Head(kvs)[1], Head(kvs)[2]), Tail(kvs))

\* eval_impl, "Initialize body constants / properties": the bindings of body x
body_bindings(x, kind) ==
    LET bases == Bases(kind)
        extra_bases == Bases(Other(kind))
        primary == Selector(kind, x)
        extra == Selector(Other(kind), x)
    IN  [i \in 1..Dof(kind) |-> <<Fmt(bases[i].axis, x.name), primary.displacement[i]>>]
        \o [i \in 1..Dof(kind) |-> <<FmtV(bases[i].axis, x.name), primary.velocity[i]>>]
        \o [i \in 1..Dof(Other(kind)) |->
               <<Fmt(extra_bases[i].axis, x.name), extra.displacement[i]>>]
        \o [i \in 1..Dof(Other(kind)) |->
               <<FmtV(extra_bases[i].axis, x.name), extra.velocity[i]>>]
        \o << <<Fmt(<<"m">>, x.name), x.properties.mass>>,
              <<Fmt(<<"I">>, x.name), x.properties.moi>> >>

RECURSIVE all_bindings(_, _)
all_bindings(bodies_, kind) ==
    IF bodies_ = <<>> THEN <<>>
    ELSE body_bindings(Head(bodies_), kind) \o all_bindings(Tail(bodies_), kind)

\* eval_impl, the overrides before the basis loop: every basis of the kind 0,
\* then every body's bindings
base_overrides(kind, bodies_) ==
    InsertAll(InsertAll(EmptyMap,
                        [i \in 1..Dof(kind) |-> <<Bases(kind)[i].name, Zero>>]),
              all_bindings(bodies_, kind))

\* eval_impl, the basis loop: what is pushed for what evaluate returned.
\* Ok(None) is [ok |-> TRUE, some |-> FALSE].
pushed_part(e, form) ==
    IF e.ok THEN [ok |-> TRUE, some |-> TRUE, val |-> e.val]
    ELSE IF e.kind.tag = "UnsatisfiedVariable" /\ e.kind.name = form
    THEN [ok |-> TRUE, some |-> FALSE]
    ELSE e

call_record(i, form, overrides, e) ==
    [basis |-> i, form |-> form, overrides |-> overrides, returned |-> e,
     part |-> pushed_part(e, form)]

evaluate_basis(i, form, overrides, env_) ==
    call_record(i, form, overrides, env_evaluate(env_, form, overrides))

\* a basis loop that leaves the basis at 1 after its evaluate call
reset_basis_skipped(overrides, kind, i) == overrides

\* eval_impl, the end of the basis loop: basis i is set back to 0
reset_basis(overrides, kind, i) == Insert(overrides, Bases(kind)[i].name, Zero)

\* eval_impl, the basis loop from basis i on: basis i is set to 1 ("work on
\* basis i"), evaluate is called on a clone of the overrides, and the basis
\* is set back
RECURSIVE eval_bases(_, _, _, _, _, _)
eval_bases(form, kind, env_, overrides, i, calls) ==
    IF i > Dof(kind) THEN calls
    ELSE LET working == Insert(overrides, Bases(kind)[i].name, One)
         IN  eval_bases(form, kind, env_, reset_basis(working, kind, i), i + 1,
                        Append(calls, evaluate_basis(i, form, working, env_)))

\* result.into_iter().collect::<EngineResult<Option<Vec<f64>>>>(): the items
\* are taken in order up to the first Err, which is the result, or the first
\* Ok(None), which makes the result Ok(None); what follows it is not looked at
RECURSIVE collect(_, _)
collect(parts, values) ==
    IF parts = <<>> THEN [ok |-> TRUE, some |-> TRUE, val |-> values]
    ELSE LET p == Head(parts)
         IN  IF ~p.ok THEN p
             ELSE IF ~p.some THEN [ok |-> TRUE, some |-> FALSE]
             ELSE collect(Tail(parts), Append(values, p.val))

collected(calls) ==
    [calls |-> calls,
     result |-> collect([i \in DOMAIN calls |-> calls[i].part], <<>>)]

\* Engine::eval_impl: [calls, result]
eval_impl(var, owner, kind, env_, bodies_) ==
    collected(eval_bases(Fmt(var, owner), kind, env_, base_overrides(kind, bodies_), 1, <<>>))

\* BodyProperties::rectangle
rectangle(mass, width, height) ==
    [mass |-> mass,
     moi |-> FMul(FDiv(mass, Int2F(12)), FAdd(FPowNat(width, 2), FPowNat(height, 2)))]

\* BodyProperties::weightless
weightless == [mass |-> Zero, moi |-> Zero]

\* a Body: name, shape, linear and angular BodyState, properties
Body(name, shape, position, velocity, rotation, properties) ==
    [name |-> name, shape |-> shape,
     linear |-> [displacement |-> position, velocity |-> velocity,
                 acceleration |-> VEmpty(LINEAR_DOF)],
     angular |-> [displacement |-> rotation, velocity |-> VEmpty(ANGULAR_DOF),
                  acceleration |-> VEmpty(ANGULAR_DOF)],
     properties |-> properties]

\* update_state!, displacement defined (s is the probed value)
integrate_displacement(state, s, dof, delta) ==
    LET new == VNew(dof, s)
    IN  IF ~new.ok THEN new
        ELSE LET old_displacement == state.displacement
             IN  Ok([state EXCEPT
                       !.displacement = new.val,
                       !.velocity = VScale(VPlus(new.val, VScale(old_displacement, Int2F(-1))),
                                           delta)])

\* update_state!, velocity defined
integrate_velocity(state, v, dof, delta) ==
    LET new == VNew(dof, v)
    IN  IF ~new.ok THEN new
        ELSE Ok([state EXCEPT
                   !.velocity = new.val,
                   !.displacement = VPlus(state.displacement, VScale(new.val, delta))])

\* update_state!, acceleration defined: the velocity is assigned first, and
\* the displacement is then computed from $state.velocity
integrate_acceleration(state, a, dof, delta) ==
    LET velocity == VNew(dof, [i \in DOMAIN a |->
                        leapfrog_velocity(delta, state.velocity[i], state.acceleration[i], a[i])])
    IN  IF ~velocity.ok THEN velocity
        ELSE
        LET s1 == [state EXCEPT !.velocity = velocity.val]
            displacement == VNew(dof, [i \in DOMAIN a |->
                        leapfrog_displacement(delta, s1.displacement[i], s1.velocity[i], a[i])])
        IN  IF ~displacement.ok THEN displacement
            ELSE LET acceleration == VNew(dof, a)
                 IN  IF ~acceleration.ok THEN acceleration
                     ELSE Ok([s1 EXCEPT !.displacement = displacement.val,
                                        !.acceleration = acceleration.val])

\* the inertial rule without the time step
integrate_inertial_unscaled(state, delta) ==
    [state EXCEPT !.displacement = VPlus(state.displacement, state.velocity)]

\* update_state!, nothing defined: "just integrate velocity"
integrate_inertial(state, delta) ==
    [state EXCEPT !.displacement = VPlus(state.displacement, VScale(state.velocity, delta))]

\* the state of a kind, replaced in a body
WithState(body, kind, state) ==
    IF kind = "Linear" THEN [body EXCEPT !.linear = state]
    ELSE [body EXCEPT !.angular = state]

\* collide::Collision
Collision(point, normal, depth) == [point |-> point, normal |-> normal, depth |-> depth]

\* calculate_impulse, "4. Final Calculation", with the early return of a
\* separating pair
impulse_value(v_rel_n, denominator, restitution_) ==
    LET numerator == FMul(FNeg(FAdd(One, restitution_)), v_rel_n)
    IN  IF FGt(v_rel_n, Zero) THEN Zero
        ELSE IF FEq(denominator, Zero) THEN Zero
        ELSE FDiv(numerator, denominator)

\* calculate_impulse, "1. Calculate Relative Velocity": v_rel . n
relative_velocity(a, b, pen_a, pen_b, n) ==
    LET v_a_point == VPlus(a.linear.velocity, cross_both(a.angular.velocity, pen_a))
        v_b_point == VPlus(b.linear.velocity, cross_both(b.angular.velocity, pen_b))
        v_rel == VPlus(v_b_point, VScale(v_a_point, Int2F(-1)))
    IN  VDot(v_rel, n)

\* calculate_impulse, "2. Inverse Mass Terms" and "3. Angular Terms": the
\* denominator
impulse_denominator(a, b, pen_a, pen_b, n) ==
    LET inv_mass_sum ==
            FAdd(IF FGt(a.properties.mass, Zero) THEN FDiv(One, a.properties.mass) ELSE Zero,
                 IF FGt(b.properties.mass, Zero) THEN FDiv(One, b.properties.mass) ELSE Zero)
        rxn_a == cross_linear(pen_a, n)
        rxn_b == cross_linear(pen_b, n)
        ang_a == IF FGt(a.properties.moi, Zero)
                 THEN FDiv(FPowNat(VMagnitude(rxn_a), 2), a.properties.moi) ELSE Zero
        ang_b == IF FGt(b.properties.moi, Zero)
                 THEN FDiv(FPowNat(VMagnitude(rxn_b), 2), b.properties.moi) ELSE Zero
    IN  FAdd(FAdd(inv_mass_sum, ang_a), ang_b)

impulse_at(a, b, pen_a, pen_b, n, restitution_) ==
    impulse_value(relative_velocity(a, b, pen_a, pen_b, n),
                  impulse_denominator(a, b, pen_a, pen_b, n), restitution_)

\* Engine::calculate_impulse
calculate_impulse(a, b, collision, restitution_) ==
    impulse_at(a, b,
               VPlus(collision.point, VScale(a.linear.displacement, Int2F(-1))),
               VPlus(collision.point, VScale(b.linear.displacement, Int2F(-1))),
               VUnit(collision.normal), restitution_)

\* a do_apply! that adds the impulse itself to the velocity, not impulse / mass
do_apply_undivided(body, inv, impulse, collision) ==
    LET delta_v == VScale(collision.normal, FMul(inv, impulse))
        delta_omega ==
            cross_linear(VPlus(collision.point, VScale(body.linear.displacement, Int2F(-1))),
                         VScale(collision.normal,
                                FDiv(FMul(inv, impulse), body.properties.moi)))
    IN  [body EXCEPT !.linear.velocity = VPlus(@, delta_v),
                     !.angular.velocity = VPlus(@, delta_omega)]

\* apply_impulse, do_apply!(body, inv)
do_apply(body, inv, impulse, collision) ==
    LET delta_v == VScale(collision.normal,
                          FDiv(FMul(inv, impulse), body.properties.mass))
        delta_omega ==
            cross_linear(VPlus(collision.point, VScale(body.linear.displacement, Int2F(-1))),
                         VScale(collision.normal,
                                FDiv(FMul(inv, impulse), body.properties.moi)))
    IN  [body EXCEPT !.linear.velocity = VPlus(@, delta_v),
                     !.angular.velocity = VPlus(@, delta_omega)]

\* apply_impulse, do_apply!(a, -1.0) and do_apply!(b, 1.0)
apply_both(a, b, impulse, collision) ==
    << do_apply(a, Int2F(-1), impulse, collision),
       do_apply(b, One, impulse, collision) >>

\* Engine::apply_impulse: <<a, b>> after the impulse
apply_impulse(a, b, collision, restitution_) ==
    apply_both(a, b, calculate_impulse(a, b, collision, restitution_), collision)

CORRECTIVE_FRAMES == 100

\* a move that turns the body as well
correction_move_turned(a, collision) ==
    LET correction == FDiv(collision.depth, a.properties.mass)
    IN  [a EXCEPT !.linear.displacement =
                      VPlus(@, VScale(collision.normal, FNeg(correction))),
                  !.angular.displacement = VPlus(@, << correction >>)]

\* apply_correction, the move of one frame of the loop
correction_move(a, collision) ==
    LET correction == FDiv(collision.depth, a.properties.mass)
    IN  [a EXCEPT !.linear.displacement =
                      VPlus(@, VScale(collision.normal, FNeg(correction)))]

\* The collider is the engine's Box<dyn Collide<S>>: what it returns is an
\* input of the model.  NoCollision is its None.
NoCollision == [hit |-> FALSE]

Some(collision) == [hit |-> TRUE, collision |-> collision]

\* The collider's answers to the re-checks of one apply_correction call:
\* the re-checks before number `sep` report the collision `again`, re-check
\* number `sep` reports None.
Recheck(answers, n) == IF n < answers.sep THEN Some(answers.again) ELSE NoCollision

\* Engine::apply_correction, the frames lo..hi of its loop, from the loop
\* state st = [body, collision, moves, separated]: one frame moves the body
\* and asks the collider again; None breaks the loop.  The frames run in
\* order; the range is halved only to keep the evaluation shallow.
RECURSIVE correction_frames(_, _, _, _)
correction_frames(st, answers, lo, hi) ==
    IF st.separated \/ lo > hi THEN st
    ELSE IF lo = hi
    THEN LET moved == correction_move(st.body, st.collision)
             c == Recheck(answers, lo)
         IN  IF c.hit
             THEN [body |-> moved, collision |-> c.collision, moves |-> lo, separated |-> FALSE]
             ELSE [body |-> moved, collision |-> st.collision, moves |-> lo, separated |-> TRUE]
    ELSE LET mid == (lo + hi) \div 2
         IN  correction_frames(correction_frames(st, answers, lo, mid), answers, mid + 1, hi)

\* a loop of one frame more: for _ in 0..=CORRECTIVE_FRAMES
apply_correction_inclusive(a, collision, answers) ==
    correction_frames([body |-> a, collision |-> collision, moves |-> 0, separated |-> FALSE],
                      answers, 1, CORRECTIVE_FRAMES + 1)

\* for _ in 0..CORRECTIVE_FRAMES
apply_correction(a, collision, answers) ==
    correction_frames([body |-> a, collision |-> collision, moves |-> 0, separated |-> FALSE],
                      answers, 1, CORRECTIVE_FRAMES)

\* ---------------------------------------------------------------- inputs
\* bounds of the model
MaxTicks == 2

MaxHits == 2

\* The scalars of the model are exact; the engine is ticked, and the
\* collider reports a collision, only while the finite scalars of the bodies
\* are fractions of numerator and denominator within MaxScalar.
MaxScalar == 128

InRange(x) == IsFinite(x) => (Abs(x[1]) <= MaxScalar /\ x[2] <= MaxScalar)

StateInRange(state) ==
    \A v \in {state.displacement, state.velocity, state.acceleration} :
        \A i \in DOMAIN v : InRange(v[i])

BodyInRange(body) == StateInRange(body.linear) /\ StateInRange(body.angular)

NameA == <<"A">>

NameB == <<"B">>

NameC == <<"C">>

hati == LINEAR_BASES[1].name

hatj == LINEAR_BASES[2].name

hatk == ANGULAR_BASES[1].name

Two == Int2F(2)

Six == Int2F(6)

Half == Q(1, 2)

V2(x, y) == << Int2F(x), Int2F(y) >>

Rec(w, h) == [tag |-> "Rec", width |-> Int2F(w), height |-> Int2F(h)]

\* The expressions of the environments, as parse returns them ("-g" is
\* 0 - g, see parse::signed).
\* g = 2 ; a_A = -g*hatj ; alpha_A = g*hatk
EnvFall ==
    << Cmp(Var(<<"g">>), Num(Two)),
       Cmp(Var(Fmt(<<"a">>, NameA)),
           Arith("Multi", Arith("Sub", Num(Zero), Var(<<"g">>)), Var(hatj))),
       Cmp(Var(Fmt(<<"a", "l", "p", "h", "a">>, NameA)),
           Arith("Multi", Var(<<"g">>), Var(hatk))) >>

\* s_B = x_A*hati + y_A*hatj ; q_A = x_A*hatk
EnvTrack ==
    << Cmp(Var(Fmt(<<"s">>, NameB)),
           Arith("Add", Arith("Multi", Var(Fmt(<<"x">>, NameA)), Var(hati)),
                        Arith("Multi", Var(Fmt(<<"y">>, NameA)), Var(hatj)))),
       Cmp(Var(Fmt(<<"q">>, NameA)),
           Arith("Multi", Var(Fmt(<<"x">>, NameA)), Var(hatk))) >>

\* v_A = 2hati + v_y_B*hatj ; omega_B = theta_B*hatk + hatk
EnvDrive ==
    << Cmp(Var(Fmt(<<"v">>, NameA)),
           Arith("Add", Arith("Multi", Num(Two), Var(hati)),
                        Arith("Multi", Var(FmtV(<<"y">>, NameB)), Var(hatj)))),
       Cmp(Var(Fmt(<<"o", "m", "e", "g", "a">>, NameB)),
           Arith("Add", Arith("Multi", Var(Fmt(<<"t", "h", "e", "t", "a">>, NameB)), Var(hatk)),
                        Var(hatk))) >>

\* a_B = k*hatj, with k defined nowhere
EnvMissing ==
    << Cmp(Var(Fmt(<<"a">>, NameB)), Arith("Multi", Var(<<"k">>), Var(hatj))) >>

\* alpha_A = h(hatk), with h defined nowhere
EnvNoFunction ==
    << Cmp(Var(Fmt(<<"a", "l", "p", "h", "a">>, NameA)),
           Fun(<<"h">>, << Var(hatk) >>)) >>

\* f(x) = x + s_A ; k*hati = 1 ; s_A = f(k)
EnvLate ==
    << Cmp(Fun(<<"f">>, << Var(<<"x">>) >>),
           Arith("Add", Var(<<"x">>), Var(Fmt(<<"s">>, NameA)))),
       Cmp(Arith("Multi", Var(<<"k">>), Var(hati)), Num(One)),
       Cmp(Var(Fmt(<<"s">>, NameA)), Fun(<<"f">>, << Var(<<"k">>) >>)) >>

\* f(x) = x + v_B ; k*hatj = 1 ; v_B = f(k)
EnvEarly ==
    << Cmp(Fun(<<"f">>, << Var(<<"x">>) >>),
           Arith("Add", Var(<<"x">>), Var(Fmt(<<"v">>, NameB)))),
       Cmp(Arith("Multi", Var(<<"k">>), Var(hatj)), Num(One)),
       Cmp(Var(Fmt(<<"v">>, NameB)), Fun(<<"f">>, << Var(<<"k">>) >>)) >>

\* builtin::functions and builtin::constants (pi and e are not scalars of
\* the model; no environment of the model refers to them)
BuiltinFunctions ==
    InsertAll(EmptyMap,
        << << <<"s", "i", "n">>, Baked("sin", 1) >>,
           << <<"a", "s", "i", "n">>, Baked("asin", 1) >>,
           << <<"c", "o", "s">>, Baked("cos", 1) >>,
           << <<"a", "c", "o", "s">>, Baked("acos", 1) >>,
           << <<"t", "a", "n">>, Baked("tan", 1) >>,
           << <<"a", "t", "a", "n">>, Baked("atan", 1) >>,
           << <<"l", "o", "g">>, Baked("log", 2) >>,
           << <<"l", "n">>, Baked("ln", 1) >>,
           << <<"s", "q", "r", "t">>, Baked("sqrt", 1) >>,
           << <<"n", "r", "t">>, Baked("nrt", 2) >> >>)

Environments ==
    { build(x, BuiltinFunctions, EmptyMap) :
        x \in {EnvFall, EnvTrack, EnvDrive, EnvMissing, EnvNoFunction, EnvLate, EnvEarly} }

NoEquations == build(<<>>, BuiltinFunctions, EmptyMap)

Masses == {Zero, One, Two}

BodyA(mass) == Body(NameA, Rec(6, 6), V2(0, 0), V2(1, 0), <<Zero>>, rectangle(mass, Six, Six))

BodyB(mass) == Body(NameB, Rec(6, 6), V2(1, 0), V2(-1, 1), <<Zero>>, rectangle(mass, Six, Six))

BodyC == Body(NameC, Rec(6, 6), V2(0, 1), V2(0, -1), <<One>>, weightless)

\* the engines the model starts from: Engine::new(bodies, env, collider,
\* delta_t, restitution)
Engines ==
    { [bodies |-> << BodyA(ma), BodyB(mb) >>, env |-> NoEquations, delta_t |-> Half,
       restitution |-> One] : ma \in Masses, mb \in Masses }
    \cup
    { [bodies |-> << BodyA(One), BodyB(Two) >>, env |-> e, delta_t |-> Half,
       restitution |-> One] : e \in Environments }
    \cup
    { [bodies |-> << BodyA(One), BodyB(Two), BodyC >>, env |-> NoEquations,
       delta_t |-> Half, restitution |-> Half],
      [bodies |-> << BodyA(One) >>, env |-> build(EnvFall, BuiltinFunctions, EmptyMap),
       delta_t |-> Half, restitution |-> One] }

\* what the collider may report
Collisions ==
    { Collision(V2(1, 0), V2(1, 0), Half),
      Collision(V2(0, 1), V2(0, 1), Zero) }

NeverSeparates == CORRECTIVE_FRAMES + 1

\* the re-checks at which the collider reports None to the two
\* apply_correction calls of one collision
SepSteps ==
    { <<1, 1>>, <<CORRECTIVE_FRAMES, 1>>, <<1, NeverSeparates>>,
      <<NeverSeparates, NeverSeparates>> }

\* ----------------------------------------------------------------- state
VARIABLES
    bodies,       \* Engine.bodies
    env,          \* Engine.env
    delta_t,      \* Engine.delta_t
    restitution,  \* Engine.restitution
    pc,           \* where tick is: "idle" (not running), "probe", "collide"
    prev_state,   \* tick's snapshot of the bodies
    cur,          \* the probe at hand: body index k, kind, symbol index sym
    pair,         \* the pair at hand in the collision loop: <<i, j>>
    collisions,   \* Tick.collisions, as built so far
    returned,     \* what the last tick returned
    ticks,        \* history: the number of tick calls
    initial,      \* history: the bodies at construction
    at_start,     \* history: the bodies when the running tick was called
    probes,       \* history: the probes of the running tick
    rules,        \* history: the integration rules applied in the running tick
    calls,        \* history: the evaluate calls of the last probe
    visits,       \* history: the collider calls of the pair loop of the running tick
    hit,          \* history: the last pair the collider reported colliding
    hits,         \* history: the number of collisions reported so far
    touched,      \* history: the bodies that took part in a collision
    failed,       \* history: whether a tick returned an error
    asked,        \* a call of a function of the library on its own: the call
    got           \* what that call returned

vars == << bodies, env, delta_t, restitution, pc, prev_state, cur, pair, collisions,
           returned, ticks, initial, at_start, probes, rules, calls, visits, hit,
           hits, touched, failed, asked, got >>

engine == << bodies, env, delta_t, restitution >>

NoCur == [k |-> 0, kind |-> "Linear", sym |-> 0]

NoHit == [i |-> 0, j |-> 0]

\* no call on its own has been made
NoCall == [fn |-> "none"]

call == << asked, got >>

Init ==
    /\ \E e \in Engines :
         /\ bodies = e.bodies
         /\ env = e.env
         /\ delta_t = e.delta_t
         /\ restitution = e.restitution
    /\ pc = "idle"
    /\ prev_state = <<>>
    /\ cur = NoCur
    /\ pair = <<0, 0>>
    /\ collisions = <<>>
    /\ returned = [status |-> "none"]
    /\ ticks = 0
    /\ initial = bodies
    /\ at_start = bodies
    /\ probes = <<>>
    /\ rules = <<>>
    /\ calls = <<>>
    /\ visits = <<>>
    /\ hit = NoHit
    /\ hits = 0
    /\ touched = {}
    /\ failed = FALSE
    /\ asked = NoCall
    /\ got = NoCall

\* tick returns Ok(tick)
ReturnOk(points) ==
    /\ pc' = "idle"
    /\ returned' = [status |-> "ok", collisions |-> points]
    /\ cur' = NoCur
    /\ pair' = <<0, 0>>
    /\ failed' = failed

\* tick returns Err(e) (the ? operator)
ReturnErr(kind) ==
    /\ pc' = "idle"
    /\ returned' = [status |-> "err", kind |-> kind]
    /\ cur' = NoCur
    /\ pair' = <<0, 0>>
    /\ failed' = TRUE

\* the collision loops: for i in 0..len, for j in 0..right.len(), with
\* indices counted from 1 here; the pair after <<i, j>>, or <<0, 0>>
FirstPair(n) == IF n >= 2 THEN <<1, 2>> ELSE <<0, 0>>

\* a pair loop whose inner index starts over at the first body
NextPairOrdered(p, n) ==
    IF p[2] < n THEN <<p[1], p[2] + 1>>
    ELSE IF p[1] + 1 <= n THEN <<p[1] + 1, 1>>
    ELSE <<0, 0>>

NextPair(p, n) ==
    IF p[2] < n THEN <<p[1], p[2] + 1>>
    ELSE IF p[1] + 2 <= n THEN <<p[1] + 1, p[1] + 2>>
    ELSE <<0, 0>>

\* tick, after the update_state! of cur: the next update_state!, or the
\* collision phase, or (no pair) the return
Advance ==
    IF cur.kind = "Linear"
    THEN /\ cur' = [k |-> cur.k, kind |-> "Angular", sym |-> 1]
         /\ UNCHANGED << pc, pair, returned, failed >>
    ELSE IF cur.k < Len(bodies)
    THEN /\ cur' = [k |-> cur.k + 1, kind |-> "Linear", sym |-> 1]
         /\ UNCHANGED << pc, pair, returned, failed >>
    ELSE IF FirstPair(Len(bodies)) = <<0, 0>>
    THEN ReturnOk(<<>>)
    ELSE /\ pc' = "collide"
         /\ pair' = FirstPair(Len(bodies))
         /\ cur' = NoCur
         /\ UNCHANGED << returned, failed >>

\* tick, entry: let prev_state = self.bodies.clone()
TickStart ==
    /\ pc = "idle"
    /\ ticks < MaxTicks
    /\ \A k \in DOMAIN bodies : BodyInRange(bodies[k])
    /\ prev_state' = bodies
    /\ at_start' = bodies
    /\ ticks' = ticks + 1
    /\ pc' = "probe"
    /\ cur' = [k |-> 1, kind |-> "Linear", sym |-> 1]
    /\ collisions' = <<>>
    /\ probes' = <<>>
    /\ rules' = <<>>
    /\ calls' = <<>>
    /\ visits' = <<>>
    /\ UNCHANGED << engine, pair, returned, initial, hit, hits, touched, failed, call >>

\* an eval! that reads the bodies as they are now instead of the snapshot
eval_current(sym, body, kind) ==
    eval_impl(Symbols(kind)[sym], body.name, kind, env, bodies)

\* the eval! of update_state!: it reads the snapshot
eval(sym, body, kind) ==
    eval_impl(Symbols(kind)[sym], body.name, kind, env, prev_state)

\* the rule of the symbol at index sym, applied to the state with the probed value
integrate(sym, state, value, kind) ==
    CASE sym = 1 -> integrate_displacement(state, value, Dof(kind), delta_t)
      [] sym = 2 -> integrate_velocity(state, value, Dof(kind), delta_t)
      [] sym = 3 -> integrate_acceleration(state, value, Dof(kind), delta_t)

RuleName(sym) ==
    CASE sym = 1 -> "displacement" [] sym = 2 -> "velocity" [] sym = 3 -> "acceleration"

\* history entries
ProbeEntry(outcome) ==
    [body |-> cur.k, kind |-> cur.kind, sym |-> cur.sym, outcome |-> outcome]

RuleEntry(name, value, after) ==
    [body |-> cur.k, kind |-> cur.kind, rule |-> name, value |-> value,
     before |-> Selector(cur.kind, bodies[cur.k]), after |-> after]

\* update_state! without its else branches: after the rule of a defined
\* symbol, the next symbol is probed as well
IntegratedFallThrough(sym, value, new) ==
    IF ~new.ok
    THEN /\ ReturnErr(new.kind)
         /\ UNCHANGED << bodies, rules >>
    ELSE /\ bodies' = [bodies EXCEPT ![cur.k] = WithState(@, cur.kind, new.val)]
         /\ rules' = Append(rules, RuleEntry(RuleName(sym), value, new.val))
         /\ IF sym < 3
            THEN /\ cur' = [cur EXCEPT !.sym = sym + 1]
                 /\ UNCHANGED << pc, pair, returned, failed >>
            ELSE Advance

\* update_state!, after the rule of the defined symbol gave `new` (the ?
\* operator on Vector::new)
Integrated(sym, value, new) ==
    IF ~new.ok
    THEN /\ ReturnErr(new.kind)
         /\ UNCHANGED << bodies, rules >>
    ELSE /\ bodies' = [bodies EXCEPT ![cur.k] = WithState(@, cur.kind, new.val)]
         /\ rules' = Append(rules, RuleEntry(RuleName(sym), value, new.val))
         /\ Advance

\* update_state!, nothing defined
Inertial(after) ==
    /\ bodies' = [bodies EXCEPT ![cur.k] = WithState(@, cur.kind, after)]
    /\ rules' = Append(rules, RuleEntry("inertial", <<>>, after))
    /\ Advance

\* a tick that puts the snapshot back when a probe fails
ProbeFailedRolledBack(kind) ==
    /\ probes' = Append(probes, ProbeEntry("error"))
    /\ ReturnErr(kind)
    /\ bodies' = prev_state
    /\ UNCHANGED rules

\* update_state!, the ? operator on eval!: tick returns the error of the
\* probe, and the bodies stay as the loop has left them
ProbeFailed(kind) ==
    /\ probes' = Append(probes, ProbeEntry("error"))
    /\ ReturnErr(kind)
    /\ UNCHANGED << bodies, rules >>

\* update_state!, after the eval! of the symbol at index sym returned e: an
\* error is returned (the ? operator), a value is integrated, and None
\* moves on to the next symbol or, after the last, to the inertial rule
Probed(sym, e) ==
    /\ calls' = e.calls
    /\ IF ~e.result.ok
       THEN ProbeFailed(e.result.kind)
       ELSE IF e.result.some
       THEN /\ probes' = Append(probes, ProbeEntry("defined"))
            /\ Integrated(sym, e.result.val,
                          integrate(sym, Selector(cur.kind, bodies[cur.k]),
                                    e.result.val, cur.kind))
       ELSE /\ probes' = Append(probes, ProbeEntry("undefined"))
            /\ IF sym < 3
               THEN /\ cur' = [cur EXCEPT !.sym = sym + 1]
                    /\ UNCHANGED << bodies, rules, pc, pair, returned, failed >>
               ELSE Inertial(integrate_inertial(Selector(cur.kind, bodies[cur.k]), delta_t))

\* one probe of update_state!, with what follows from its outcome
Probe(sym) ==
    /\ pc = "probe"
    /\ cur.sym = sym
    /\ Probed(sym, eval(sym, bodies[cur.k], cur.kind))
    /\ UNCHANGED << env, delta_t, restitution, prev_state, collisions, ticks, initial,
                    at_start, visits, hit, hits, touched, call >>

ProbeDisplacement == Probe(1)

ProbeVelocity == Probe(2)

ProbeAcceleration == Probe(3)

\* the pair loop moves on, or tick returns with the points
AfterPair(points) ==
    LET next == NextPair(pair, Len(bodies))
    IN  IF next = <<0, 0>> THEN ReturnOk(points)
        ELSE /\ pair' = next
             /\ UNCHANGED << pc, cur, returned, failed >>

\* the pair loop, collider.collide(a, b) returns None
CollideMiss ==
    /\ pc = "collide"
    /\ visits' = Append(visits, [i |-> pair[1], j |-> pair[2], hit |-> FALSE])
    /\ AfterPair(collisions)
    /\ UNCHANGED << engine, prev_state, collisions, ticks, initial, at_start, probes,
                    rules, calls, hit, hits, touched, call >>

\* the pair loop, after apply_correction(a, b) and apply_correction(b, a)
Corrected(collision, pushed, fix_a, fix_b) ==
    /\ collisions' = Append(collisions, collision.point)
    /\ bodies' = [bodies EXCEPT ![pair[1]] = fix_a.body, ![pair[2]] = fix_b.body]
    /\ visits' = Append(visits, [i |-> pair[1], j |-> pair[2], hit |-> TRUE,
                                 point |-> collision.point])
    /\ hit' = [i |-> pair[1], j |-> pair[2], collision |-> collision,
               before |-> << bodies[pair[1]], bodies[pair[2]] >>,
               pushed |-> pushed,
               after |-> << fix_a.body, fix_b.body >>,
               corrections |-> << [moves |-> fix_a.moves, separated |-> fix_a.separated],
                                  [moves |-> fix_b.moves, separated |-> fix_b.separated] >>]
    /\ touched' = touched \cup {pair[1], pair[2]}
    /\ AfterPair(Append(collisions, collision.point))

\* the pair loop, after apply_impulse: both corrections start from the
\* collision the pair loop got
Pushed(collision, sep, pushed) ==
    Corrected(collision, pushed,
              apply_correction(pushed[1], collision, [sep |-> sep[1], again |-> collision]),
              apply_correction(pushed[2], collision, [sep |-> sep[2], again |-> collision]))

\* the pair loop, collider.collide(a, b) returns Some(collision): the point
\* is recorded, then apply_impulse, apply_correction(a, b), apply_correction(b, a)
CollideHit ==
    /\ pc = "collide"
    /\ hits < MaxHits
    /\ BodyInRange(bodies[pair[1]]) /\ BodyInRange(bodies[pair[2]])
    /\ \E collision \in Collisions, sep \in SepSteps :
         Pushed(collision, sep,
                apply_impulse(bodies[pair[1]], bodies[pair[2]], collision, restitution))
    /\ hits' = hits + 1
    /\ UNCHANGED << env, delta_t, restitution, prev_state, ticks, initial, at_start,
                    probes, rules, calls, call >>

Next ==
    \/ TickStart
    \/ ProbeDisplacement
    \/ ProbeVelocity
    \/ ProbeAcceleration
    \/ CollideMiss
    \/ CollideHit

Spec == Init /\ [][Next]_vars

\* ---------------------------------------------------------------- claims
\* The histories probes, rules, calls and visits are those of the running
\* tick, or of the last tick once it has returned.

KindNames == {"Linear", "Angular"}

\* the entries of a history for body k and a kind
Of(log, k, kind) == SelectSeq(log, LAMBDA x : x.body = k /\ x.kind = kind)

\* a probe that ends the probing of its body and kind
Closing(probe) ==
    probe.outcome = "defined" \/ (probe.outcome = "undefined" /\ probe.sym = 3)

\* the rule a closing probe calls for
RuleFor(probe) == IF probe.outcome = "defined" THEN RuleName(probe.sym) ELSE "inertial"

\* the tick has integrated every body, linear and angular
AllIntegrated ==
    \A k \in DOMAIN bodies : \A kind \in KindNames : Len(Of(rules, k, kind)) = 1

TickReturnedOk == pc = "idle" /\ ticks > 0 /\ returned.status = "ok"

\* C1: for every body and kind the symbols are probed in the order
\* displacement, velocity, acceleration; a symbol after the first is probed
\* only right after the symbol before it, of the same body and kind, was
\* undefined; at most one rule is applied per body and kind, it is applied
\* with the closing probe and is the rule that probe calls for; and a tick
\* that reaches its collision phase or returns Ok has applied exactly one
\* rule to every body and kind.
C1_ProbeOrderOneRule ==
    /\ \A p \in DOMAIN probes :
         IF probes[p].sym = 1
         THEN p > 1 => Closing(probes[p - 1])
         ELSE /\ p > 1
              /\ probes[p - 1].body = probes[p].body
              /\ probes[p - 1].kind = probes[p].kind
              /\ probes[p - 1].sym = probes[p].sym - 1
              /\ probes[p - 1].outcome = "undefined"
    /\ \A k \in DOMAIN bodies : \A kind \in KindNames :
         LET ps == Of(probes, k, kind)
             rs == Of(rules, k, kind)
         IN  /\ Len(rs) <= 1
             /\ Len(rs) = 1 <=> (ps # <<>> /\ Closing(ps[Len(ps)]))
             /\ Len(rs) = 1 => rs[1].rule = RuleFor(ps[Len(ps)])
             /\ \A p \in DOMAIN ps : ps[p].sym = p
    /\ (pc = "collide" \/ TickReturnedOk) => AllIntegrated

\* a tick returned Ok after an acceleration rule (two undefined probes, then
\* a defined one) and an inertial rule (three undefined probes)
C1_Witness ==
    /\ TickReturnedOk
    /\ \E r \in DOMAIN rules : rules[r].rule = "acceleration"
    /\ \E r \in DOMAIN rules : rules[r].rule = "inertial"
    /\ \E p \in DOMAIN probes : probes[p].sym = 3 /\ probes[p].outcome = "defined"

\* the evaluate calls of the last probe that failed with an error other than
\* UnsatisfiedVariable of the probed name
FatalCalls ==
    { i \in DOMAIN calls :
        /\ ~calls[i].returned.ok
        /\ ~(calls[i].returned.kind.tag = "UnsatisfiedVariable"
             /\ calls[i].returned.kind.name = calls[i].form) }

\* the evaluate calls of the last probe that failed with UnsatisfiedVariable
\* of the probed name
UndefinedCalls ==
    { i \in DOMAIN calls :
        /\ ~calls[i].returned.ok
        /\ calls[i].returned.kind.tag = "UnsatisfiedVariable"
        /\ calls[i].returned.kind.name = calls[i].form }

FirstOf(S) == CHOOSE i \in S : \A j \in S : i <= j

\* C2: when an evaluate call of a probe fails with an error other than
\* UnsatisfiedVariable of the probed name, tick returns that error: the probe
\* is the last of the tick and the tick has returned Err with the kind of the
\* first such failure; when the only failures are UnsatisfiedVariable of the
\* probed name, the probe is undefined and the tick goes on.
C2_OtherErrorsAreFatal ==
    (calls # <<>> /\ probes # <<>>) =>
        LET last == probes[Len(probes)]
        IN  /\ FatalCalls # {} =>
                /\ last.outcome = "error"
                /\ pc = "idle"
                /\ returned.status = "err"
                /\ returned.kind.tag = calls[FirstOf(FatalCalls)].returned.kind.tag
            /\ (FatalCalls = {} /\ UndefinedCalls # {}) =>
                /\ last.outcome = "undefined"
                /\ (pc = "idle" => returned.status = "ok")

\* the bindings of body b the claim lists, with b's values
ListedBindings(b) ==
    << << Fmt(<<"x">>, b.name), b.linear.displacement[1] >>,
       << Fmt(<<"y">>, b.name), b.linear.displacement[2] >>,
       << FmtV(<<"x">>, b.name), b.linear.velocity[1] >>,
       << FmtV(<<"y">>, b.name), b.linear.velocity[2] >>,
       << Fmt(<<"t", "h", "e", "t", "a">>, b.name), b.angular.displacement[1] >>,
       << FmtV(<<"t", "h", "e", "t", "a">>, b.name), b.angular.velocity[1] >>,
       << Fmt(<<"m">>, b.name), b.properties.mass >>,
       << Fmt(<<"I">>, b.name), b.properties.moi >> >>

\* C3: every evaluate call of a probe is given, for every body B, the
\* bindings x_B, y_B, v_x_B, v_y_B, theta_B, v_theta_B, m_B and I_B with B's
\* values at the start of the running tick.
C3_BindingsFromTickStart ==
    \A c \in DOMAIN calls : \A k \in DOMAIN at_start :
        LET listed == ListedBindings(at_start[k])
        IN  \A n \in DOMAIN listed :
                /\ Has(calls[c].overrides, listed[n][1])
                /\ calls[c].overrides[listed[n][1]] = listed[n][2]

\* a probe of the second body was evaluated after the first body had moved
\* away from where it was at the start of the tick
C3_Witness ==
    /\ calls # <<>>
    /\ probes # <<>>
    /\ probes[Len(probes)].body = 2
    /\ bodies[1].linear.displacement # at_start[1].linear.displacement
    /\ calls[1].overrides[Fmt(<<"x">>, bodies[1].name)] = at_start[1].linear.displacement[1]
    /\ calls[1].overrides[Fmt(<<"x">>, bodies[1].name)] # bodies[1].linear.displacement[1]

\* C4: an acceleration-defined rule with probed value a gives, in every
\* component i, velocity[i] = old_v[i] + (old_a[i] + a[i])/2 * delta_t and
\* displacement[i] = old_s[i] + old_v[i] * delta_t + 1/2 * a[i] * delta_t^2,
\* with old_v the velocity before the tick, and stores a as the acceleration.
C4_LeapfrogFromOldVelocity ==
    \A r \in DOMAIN rules :
        rules[r].rule = "acceleration" =>
            LET old == rules[r].before
                new == rules[r].after
                a == rules[r].value
            IN  /\ new.acceleration = a
                /\ \A i \in DOMAIN a :
                     /\ new.velocity[i] =
                            FAdd(old.velocity[i],
                                 FMul(FDiv(FAdd(old.acceleration[i], a[i]), Two), delta_t))
                     /\ new.displacement[i] =
                            FAdd(FAdd(old.displacement[i], FMul(old.velocity[i], delta_t)),
                                 FMul(FMul(Half, a[i]), FPowNat(delta_t, 2)))

\* C5: a displacement-defined rule with probed value s_new gives displacement
\* s_new and, in every component, velocity (s_new - old displacement) / delta_t.
C5_VelocityFromDisplacement ==
    \A r \in DOMAIN rules :
        rules[r].rule = "displacement" =>
            LET old == rules[r].before
                new == rules[r].after
                s_new == rules[r].value
            IN  /\ new.displacement = s_new
                /\ \A i \in DOMAIN s_new :
                     new.velocity[i] = FDiv(FSub(s_new[i], old.displacement[i]), delta_t)

\* the names update_state! probes for a body
ProbedNames(body) ==
    { Fmt(Symbols(kind)[sym], body.name) : kind \in KindNames, sym \in 1..3 }

\* the environment defines nothing for the body: no equation depends on a
\* name that is probed for it
DefinesNothingFor(body) ==
    \A e \in DOMAIN env.equations :
        env.equations[e].dependencies \cap ProbedNames(body) = {}

\* C6: a body for which the environment defines nothing and which took part
\* in no collision has, after N ticks that returned Ok, the linear
\* displacement initial displacement + N * delta_t * initial velocity.
C6_InertialContinuation ==
    (pc = "idle" /\ ~failed) =>
        \A k \in DOMAIN bodies :
            (DefinesNothingFor(bodies[k]) /\ k \notin touched) =>
                bodies[k].linear.displacement =
                    VPlus(initial[k].linear.displacement,
                          VScale(initial[k].linear.velocity, FMul(Int2F(ticks), delta_t)))

\* after the last tick, in an environment that has equations for another
\* body, a body with nothing defined and no collision has moved
C6_Witness ==
    /\ pc = "idle" /\ ~failed /\ ticks = MaxTicks
    /\ env.equations # <<>>
    /\ \E k \in DOMAIN bodies :
         /\ DefinesNothingFor(bodies[k])
         /\ k \notin touched
         /\ bodies[k].linear.displacement # initial[k].linear.displacement
         /\ bodies[k].linear.displacement =
                VPlus(initial[k].linear.displacement, initial[k].linear.velocity)

\* the unordered pairs of n bodies, in the order i < j, by i and then by j
UnorderedPairs(n) ==
    SelectSeq([p \in 1..(n * n) |-> << ((p - 1) \div n) + 1, ((p - 1) % n) + 1 >>],
              LAMBDA q : q[1] < q[2])

\* the contact points of the visits that reported a collision, in order
RECURSIVE PointsOf(_)
PointsOf(vs) ==
    IF vs = <<>> THEN <<>>
    ELSE IF Head(vs).hit THEN << Head(vs).point >> \o PointsOf(Tail(vs))
    ELSE PointsOf(Tail(vs))

\* C7: the collision phase starts only after every body's linear and angular
\* state has been integrated; the pair loop calls the collider for the
\* unordered pairs of distinct bodies, each once, and for all of them when
\* the tick returns Ok; Tick.collisions holds the contact point of every
\* call that reported a collision, in the order of the calls.
C7_PairLoop ==
    LET expected == UnorderedPairs(Len(bodies))
    IN  /\ (pc = "collide" \/ visits # <<>>) => AllIntegrated
        /\ Len(visits) <= Len(expected)
        /\ \A v \in DOMAIN visits :
             /\ << visits[v].i, visits[v].j >> = expected[v]
             /\ visits[v].i # visits[v].j
        /\ pc = "collide" => (Len(visits) < Len(expected) /\ pair = expected[Len(visits) + 1])
        /\ collisions = PointsOf(visits)
        /\ TickReturnedOk =>
             /\ Len(visits) = Len(expected)
             /\ returned.collisions = PointsOf(visits)

\* a tick of three bodies returned Ok with two contact points out of three
\* collider calls
C7_Witness ==
    /\ TickReturnedOk
    /\ Len(bodies) = 3
    /\ Len(visits) = 3
    /\ Len(returned.collisions) = 2
    /\ \E v \in DOMAIN visits : ~visits[v].hit

\* the two apply_correction calls of the last collision: mover and anchor
Sides == {1, 2}

\* C8: apply_correction makes at most CORRECTIVE_FRAMES = 100 moves of the
\* mover, each by -(depth / mass) * normal, and when it returns either the
\* last collider call reported no collision or exactly 100 moves were made.
C8_CorrectionTerminates ==
    hit.i # 0 =>
        \A s \in Sides :
            LET fix == hit.corrections[s]
                mass == hit.pushed[s].properties.mass
            IN  /\ fix.moves >= 1
                /\ fix.moves <= CORRECTIVE_FRAMES
                /\ fix.separated \/ fix.moves = CORRECTIVE_FRAMES
                /\ FGt(mass, Zero) =>
                     hit.after[s].linear.displacement =
                         VPlus(hit.pushed[s].linear.displacement,
                               VScale(hit.collision.normal,
                                      FNeg(FMul(Int2F(fix.moves),
                                                FDiv(hit.collision.depth, mass)))))

\* one correction stopped at its first re-check, the other made 100 moves
\* with the collider still reporting the collision
C8_Witness ==
    /\ hit.i # 0
    /\ hit.corrections[1].moves = 1 /\ hit.corrections[1].separated
    /\ hit.corrections[2].moves = CORRECTIVE_FRAMES /\ ~hit.corrections[2].separated
    /\ hit.after[2].linear.displacement # hit.pushed[2].linear.displacement

\* C9: a body of mass 0 that takes part in a collision keeps its linear
\* displacement and linear velocity, and they are finite.
C9_MasslessImmovable ==
    hit.i # 0 =>
        \A s \in Sides :
            FEq(hit.before[s].properties.mass, Zero) =>
                /\ hit.after[s].linear.displacement = hit.before[s].linear.displacement
                /\ hit.after[s].linear.velocity = hit.before[s].linear.velocity
                /\ VFinite(hit.after[s].linear.displacement)
                /\ VFinite(hit.after[s].linear.velocity)

\* m_a * v_a + m_b * v_b
Momentum(pr) ==
    VPlus(VScale(pr[1].linear.velocity, pr[1].properties.mass),
          VScale(pr[2].linear.velocity, pr[2].properties.mass))

Three == Int2F(3)

Four == Int2F(4)

Five == Int2F(5)

Seven == Int2F(7)

NameOf(letter) == << letter >>

\* the constants handed to Environment::build: c = 3
EvalConstants == Insert(EmptyMap, NameOf("c"), Three)

\* c = 5 (c is a constant as well)
EnvShadowed == << Cmp(Var(NameOf("c")), Num(Five)) >>

\* x = 1 ; x = 2
EnvTwoRoots ==
    << Cmp(Var(NameOf("x")), Num(One)), Cmp(Var(NameOf("x")), Num(Two)) >>

\* x = 1 ; x*0 = 1
EnvLateFailure ==
    << Cmp(Var(NameOf("x")), Num(One)),
       Cmp(Arith("Multi", Var(NameOf("x")), Num(Zero)), Num(One)) >>

\* y = u + 1 ; y = w + 2 ; x = t + 1 ; x = 3
EnvUnsatisfied ==
    << Cmp(Var(NameOf("y")), Arith("Add", Var(NameOf("u")), Num(One))),
       Cmp(Var(NameOf("y")), Arith("Add", Var(NameOf("w")), Num(Two))),
       Cmp(Var(NameOf("x")), Arith("Add", Var(NameOf("t")), Num(One))),
       Cmp(Var(NameOf("x")), Num(Three)) >>

\* p = y ; y = p
EnvCycle ==
    << Cmp(Var(NameOf("p")), Var(NameOf("y"))),
       Cmp(Var(NameOf("y")), Var(NameOf("p"))) >>

\* f(x) = x + u ; g(x, y) = x + y + w ; w = 4 ; h(c) = c
EnvCalls ==
    << Cmp(Fun(NameOf("f"), << Var(NameOf("x")) >>),
           Arith("Add", Var(NameOf("x")), Var(NameOf("u")))),
       Cmp(Fun(NameOf("g"), << Var(NameOf("x")), Var(NameOf("y")) >>),
           Arith("Add", Arith("Add", Var(NameOf("x")), Var(NameOf("y"))), Var(NameOf("w")))),
       Cmp(Var(NameOf("w")), Num(Four)),
       Cmp(Fun(NameOf("h"), << Var(NameOf("c")) >>), Var(NameOf("c"))) >>

\* y*0 = 1
EnvNoRoot ==
    << Cmp(Arith("Multi", Var(NameOf("y")), Num(Zero)), Num(One)) >>

EvalEnvironments ==
    { build(x, BuiltinFunctions, EvalConstants) :
        x \in {EnvShadowed, EnvTwoRoots, EnvLateFailure, EnvUnsatisfied, EnvCycle, EnvCalls,
               EnvNoRoot} }

EvalNames == { NameOf(l) : l \in {"c", "x", "y", "p", "u"} }

\* Frame.stack: the ids of the equations being solved
EvalStacks == { {}, {0}, {0, 1} }

\* Frame.local
EvalLocals == { EmptyMap, Insert(EmptyMap, NameOf("c"), One) }

\* Frame.memo
EvalMemos ==
    { EmptyMap, Insert(EmptyMap, NameOf("c"), Two), Insert(EmptyMap, NameOf("u"), Seven) }

\* the registered functions that are called, with arguments at which the
\* native code has a value in the model
ValidCalls ==
    { Fun(<<"s", "i", "n">>, << Num(Zero) >>),
      Fun(<<"c", "o", "s">>, << Num(Zero) >>),
      Fun(<<"t", "a", "n">>, << Num(Zero) >>),
      Fun(<<"a", "s", "i", "n">>, << Num(Zero) >>),
      Fun(<<"a", "c", "o", "s">>, << Num(One) >>),
      Fun(<<"a", "t", "a", "n">>, << Num(Zero) >>),
      Fun(<<"l", "n">>, << Num(One) >>),
      Fun(<<"s", "q", "r", "t">>, << Num(Four) >>),
      Fun(<<"l", "o", "g">>, << Num(One), Num(Two) >>),
      Fun(<<"n", "r", "t">>, << Num(Four), Num(One) >>),
      Fun(NameOf("f"), << Num(One) >>),
      Fun(NameOf("g"), << Num(One), Num(Two) >>),
      Fun(NameOf("h"), << Num(Seven) >>) }

\* the largest number of arguments of a call
MaxArgs == 3

\* argument lists of every length up to MaxArgs; the last evaluates w
ArgLists ==
    { [i \in 1..n |-> Num(One)] : n \in 0..MaxArgs }
    \cup { << Var(NameOf("w")) >>, << Num(One), Var(NameOf("w")) >> }

\* the valid calls, and every function called with a wrong number of arguments
EvalCalls ==
    ValidCalls
    \cup { x \in { Fun(c.name, args) : c \in ValidCalls, args \in ArgLists } :
             Len(x.args) # Len((CHOOSE c \in ValidCalls : c.name = x.name).args) }

EvalQuery(e, node, stack, local, memo) ==
    [fn |-> "evaluate", env |-> e, node |-> node, stack |-> stack, local |-> local,
     memo |-> memo]

EvalQueries ==
    { EvalQuery(e, Var(n), st, l, m) :
        e \in EvalEnvironments, n \in EvalNames, st \in EvalStacks, l \in EvalLocals,
        m \in EvalMemos }
    \cup
    { EvalQuery(build(EnvCalls, BuiltinFunctions, EvalConstants), c, {}, EmptyMap, m) :
        c \in EvalCalls, m \in EvalMemos }

\* the engine variables of a library call on its own: an engine with no body
Library ==
    /\ bodies = <<>>
    /\ env = NoEquations
    /\ delta_t = Half
    /\ restitution = One
    /\ pc = "idle"
    /\ prev_state = <<>>
    /\ cur = NoCur
    /\ pair = <<0, 0>>
    /\ collisions = <<>>
    /\ returned = [status |-> "none"]
    /\ ticks = 0
    /\ initial = bodies
    /\ at_start = bodies
    /\ probes = <<>>
    /\ rules = <<>>
    /\ calls = <<>>
    /\ visits = <<>>
    /\ hit = NoHit
    /\ hits = 0
    /\ touched = {}
    /\ failed = FALSE

machine == << bodies, env, delta_t, restitution, pc, prev_state, cur, pair, collisions,
              returned, ticks, initial, at_start, probes, rules, calls, visits, hit,
              hits, touched, failed >>

EvalInit ==
    /\ Library
    /\ asked \in EvalQueries
    /\ got = NoCall

\* evaluate(node, frame), with the memo of the frame
Evaluate ==
    /\ asked.fn = "evaluate"
    /\ got = NoCall
    /\ got' = evaluate(asked.node,
                       [environment |-> asked.env, stack |-> asked.stack,
                        local |-> asked.local],
                       asked.memo)
    /\ UNCHANGED << machine, asked >>

EvalNext == Evaluate

EvalSpec == EvalInit /\ [][EvalNext]_vars

\* an evaluate call has returned
Evaluated == asked.fn = "evaluate" /\ got # NoCall

\* the evaluate call returned Ok(value)
Returned(value) == got.r.ok /\ got.r.val = value

\* the evaluate call failed with the kind of the tag
Failed(tag) == ~got.r.ok /\ got.r.kind.tag = tag

\* C11: evaluate of Variable v returns the local binding of v if there is
\* one, else the memo binding, else the environment's constant, and leaves
\* the memo as it was: the equations are not searched.  So an override (the
\* memo of Environment::evaluate) shadows a constant of the same name, and a
\* local, also one bound by a function call, shadows both.
C11_LookupOrder ==
    Evaluated =>
        /\ asked.node.type = "Variable" =>
             LET v == asked.node.name
             IN  IF Has(asked.local, v)
                 THEN Returned(asked.local[v]) /\ got.memo = asked.memo
                 ELSE IF Has(asked.memo, v)
                 THEN Returned(asked.memo[v]) /\ got.memo = asked.memo
                 ELSE IF Has(asked.env.constants, v)
                 THEN Returned(asked.env.constants[v]) /\ got.memo = asked.memo
                 ELSE TRUE
        /\ asked.node = Fun(NameOf("h"), << Num(Seven) >>) =>
             Returned(Seven) /\ got.memo = asked.memo

\* c is bound as a local (1), in the memo (2), as a constant (3) and by the
\* equation c = 5, and evaluate returned 1
C11_Witness ==
    /\ Evaluated
    /\ asked.node = Var(NameOf("c"))
    /\ Has(asked.local, NameOf("c"))
    /\ Has(asked.memo, NameOf("c"))
    /\ Has(asked.env.constants, NameOf("c"))
    /\ \E e \in DOMAIN asked.env.equations :
         NameOf("c") \in asked.env.equations[e].dependencies
    /\ asked.local[NameOf("c")] # asked.memo[NameOf("c")]
    /\ asked.memo[NameOf("c")] # asked.env.constants[NameOf("c")]
    /\ Returned(One)

\* the variable of the call is in no local, memo or constant: evaluate
\* goes to the equations
ThroughEquations ==
    /\ Evaluated
    /\ asked.node.type = "Variable"
    /\ ~Has(asked.local, asked.node.name)
    /\ ~Has(asked.memo, asked.node.name)
    /\ ~Has(asked.env.constants, asked.node.name)

\* the candidate equations of the variable of the call, in source order
Candidates ==
    SelectSeq(asked.env.equations, LAMBDA x : asked.node.name \in x.dependencies)

\* what the root-find of each candidate gives, in order, each from the memo
\* the one before it left: [tag |-> "Ignore"] for a candidate on the stack,
\* else [tag |-> "Tried", r |-> the result of find_root]
RECURSIVE Outcomes(_, _, _, _)
OutcomesAfter(root, cands, name, frame) ==
    << [tag |-> "Tried", r |-> root.r] >> \o Outcomes(Tail(cands), name, frame, root.memo)

Outcomes(cands, name, frame, memo) ==
    IF cands = <<>> THEN <<>>
    ELSE IF visited(frame, Head(cands))
    THEN << [tag |-> "Ignore"] >> \o Outcomes(Tail(cands), name, frame, memo)
    ELSE OutcomesAfter(find_root(Arith("Sub", Head(cands).node.left, Head(cands).node.right),
                                 name, Zero, push(frame, Head(cands)), memo),
                       cands, name, frame)

AskedOutcomes ==
    Outcomes(Candidates, asked.node.name,
             [environment |-> asked.env, stack |-> asked.stack, local |-> asked.local],
             asked.memo)

Successes(outs) == SelectSeq(outs, LAMBDA x : x.tag = "Tried" /\ x.r.ok)

\* the candidates that failed with an error other than UnsatisfiedVariable
Fatal(outs) ==
    SelectSeq(outs, LAMBDA x : x.tag = "Tried" /\ ~x.r.ok
                                 /\ x.r.kind.tag # "UnsatisfiedVariable")

\* the names the candidates reported as unsatisfied, in order
Unsatisfied(outs) ==
    SelectSeq(outs, LAMBDA x : x.tag = "Tried" /\ ~x.r.ok
                                 /\ x.r.kind.tag = "UnsatisfiedVariable")

\* C12: when a variable is resolved through equations and the root-find of
\* at least one candidate succeeds, evaluate returns the value of the first
\* successful candidate, and the memo then binds the variable to that value.
C12_FirstSuccessMemoised ==
    ThroughEquations =>
        LET successes == Successes(AskedOutcomes)
        IN  successes # <<>> =>
                /\ Returned(successes[1].r.val)
                /\ Has(got.memo, asked.node.name)
                /\ got.memo[asked.node.name] = successes[1].r.val

\* the name evaluate is to report when no candidate succeeded: the name of
\* the first candidate that failed with UnsatisfiedVariable, else the
\* variable itself
ReportedName(outs) ==
    IF Unsatisfied(outs) # <<>> THEN Unsatisfied(outs)[1].r.kind.name
    ELSE asked.node.name

\* C13: when a variable is resolved through equations, no candidate's
\* root-find succeeds and none fails with an error other than
\* UnsatisfiedVariable, evaluate fails with UnsatisfiedVariable(n), n being
\* the name reported by the first candidate, in source order, that failed
\* with UnsatisfiedVariable, or the variable itself when no candidate
\* reported one (no candidates, or all of them on the visited stack).
C13_UnsatisfiedName ==
    ThroughEquations =>
        LET outs == AskedOutcomes
        IN  (Successes(outs) = <<>> /\ Fatal(outs) = <<>>) =>
                /\ Failed("UnsatisfiedVariable")
                /\ got.r.kind.name = ReportedName(outs)

\* C13 as stated: whenever no candidate succeeded, evaluate fails with
\* UnsatisfiedVariable of that name.
C13_AlwaysUnsatisfiedVariable ==
    ThroughEquations =>
        LET outs == AskedOutcomes
        IN  Successes(outs) = <<>> =>
                /\ Failed("UnsatisfiedVariable")
                /\ got.r.kind.name = ReportedName(outs)

\* two candidates of y failed with UnsatisfiedVariable, of u and then of w,
\* and evaluate failed with UnsatisfiedVariable(u)
C13_Witness ==
    /\ ThroughEquations
    /\ asked.node.name = NameOf("y")
    /\ Len(Unsatisfied(AskedOutcomes)) = 2
    /\ Unsatisfied(AskedOutcomes)[1].r.kind.name = NameOf("u")
    /\ Unsatisfied(AskedOutcomes)[2].r.kind.name = NameOf("w")
    /\ Failed("UnsatisfiedVariable")
    /\ got.r.kind.name = NameOf("u")

\* every candidate of the variable is on the visited stack, and evaluate
\* failed with UnsatisfiedVariable of the variable itself
C13_AllVisited ==
    /\ ThroughEquations
    /\ Candidates # <<>>
    /\ \A i \in DOMAIN AskedOutcomes : AskedOutcomes[i].tag = "Ignore"
    /\ Failed("UnsatisfiedVariable")
    /\ got.r.kind.name = asked.node.name

\* the arity of the registered functions: the built-ins, and the number of
\* parameters of f(x), g(x, y) and h(c)
Arity ==
    [n \in { <<"s", "i", "n">>, <<"c", "o", "s">>, <<"t", "a", "n">>,
             <<"a", "s", "i", "n">>, <<"a", "c", "o", "s">>, <<"a", "t", "a", "n">>,
             <<"l", "n">>, <<"s", "q", "r", "t">>, NameOf("f"), NameOf("h") } |-> 1]
    @@ [n \in { <<"l", "o", "g">>, <<"n", "r", "t">>, NameOf("g") } |-> 2]

\* C14: a call of a registered function of arity k with k' # k arguments,
\* all of which evaluate, fails with WrongNumberOfArguments{name, expected =
\* k, found = k'}; the body or native code is not run: the failure is not
\* one of the body, and the memo is as the arguments left it.
C14_WrongNumberOfArguments ==
    (Evaluated /\ asked.node.type = "Function") =>
        LET name == asked.node.name
            found == Len(asked.node.args)
        IN  (name \in DOMAIN Arity /\ found # Arity[name]) =>
                /\ Failed("WrongNumberOfArguments")
                /\ got.r.kind.name = name
                /\ got.r.kind.expected = Arity[name]
                /\ got.r.kind.found = found
                /\ (\A i \in DOMAIN asked.node.args : asked.node.args[i].type = "Number")
                       => got.memo = asked.memo

\* log, of arity 2, was called with three arguments
C14_Witness ==
    /\ Evaluated
    /\ asked.node.type = "Function"
    /\ asked.node.name = <<"l", "o", "g">>
    /\ Len(asked.node.args) = 3
    /\ Failed("WrongNumberOfArguments")
    /\ got.r.kind.expected = 2
    /\ got.r.kind.found = 3

\* ------------------------------------------- Environment::build on its own
\* the parsed expressions build is given: at most MaxExpressions of these
MaxExpressions == 2

BuildPool ==
    { \* f(x) = x + u
      Cmp(Fun(NameOf("f"), << Var(NameOf("x")) >>),
          Arith("Add", Var(NameOf("x")), Var(NameOf("u")))),
      \* f(x, y) = sin(x) * y
      Cmp(Fun(NameOf("f"), << Var(NameOf("x")), Var(NameOf("y")) >>),
          Arith("Multi", Fun(<<"s", "i", "n">>, << Var(NameOf("x")) >>), Var(NameOf("y")))),
      \* f(1) = x
      Cmp(Fun(NameOf("f"), << Num(One) >>), Var(NameOf("x"))),
      \* g(x, y + 1) = 2
      Cmp(Fun(NameOf("g"), << Var(NameOf("x")), Arith("Add", Var(NameOf("y")), Num(One)) >>),
          Num(Two)),
      \* y = sin(x) + g(u)
      Cmp(Var(NameOf("y")),
          Arith("Add", Fun(<<"s", "i", "n">>, << Var(NameOf("x")) >>),
                       Fun(NameOf("g"), << Var(NameOf("u")) >>))),
      \* x * 0 = f(y)
      Cmp(Arith("Multi", Var(NameOf("x")), Num(Zero)), Fun(NameOf("f"), << Var(NameOf("y")) >>)),
      \* 1 = 1
      Cmp(Num(One), Num(One)),
      \* x + 1
      Arith("Add", Var(NameOf("x")), Num(One)) }

BuildQueries ==
    { [fn |-> "build", expressions |-> x] :
        x \in UNION { [1..n -> BuildPool] : n \in 0..MaxExpressions } }

BuildInit ==
    /\ Library
    /\ asked \in BuildQueries
    /\ got = NoCall

\* Environment::build(expressions, builtin::functions(), constants)
Build ==
    /\ asked.fn = "build"
    /\ got = NoCall
    /\ got' = build(asked.expressions, BuiltinFunctions, EvalConstants)
    /\ UNCHANGED << machine, asked >>

BuildNext == Build

BuildSpec == BuildInit /\ [][BuildNext]_vars

Built == asked.fn = "build" /\ got # NoCall

\* a comparison whose left side is a function call with bare Variables for
\* arguments
IsDefinition(x) ==
    /\ x.type = "Comparison"
    /\ x.left.type = "Function"
    /\ \A i \in DOMAIN x.left.args : x.left.args[i].type = "Variable"

\* the Variable names and the Function names that occur in a node
RECURSIVE NamesIn(_)
NamesIn(node) ==
    IF node.type = "Variable" THEN {node.name}
    ELSE IF node.type = "Function"
    THEN {node.name} \cup UNION { NamesIn(node.args[i]) : i \in DOMAIN node.args }
    ELSE IF node.type \in {"Arithmetic", "Comparison"}
    THEN NamesIn(node.left) \cup NamesIn(node.right)
    ELSE {}

\* the comparisons that are to become equations, in source order
ToBeEquations ==
    SelectSeq(asked.expressions, LAMBDA x : x.type = "Comparison" /\ ~IsDefinition(x))

\* the comparisons that are to become functions, in source order
ToBeFunctions == SelectSeq(asked.expressions, IsDefinition)

\* C15: build records a comparison as a user-defined function, with its
\* parameter names and its right side as the body, and not as an equation,
\* exactly when its left side is a function call whose every argument is a
\* bare Variable; every other comparison becomes an Equation, in source
\* order, whose dependency set is the set of all Variable names and all
\* Function names of both sides.
C15_FunctionsAndEquations ==
    Built =>
        /\ Len(got.equations) = Len(ToBeEquations)
        /\ \A i \in DOMAIN got.equations :
             /\ got.equations[i].node = ToBeEquations[i]
             /\ got.equations[i].dependencies =
                    NamesIn(ToBeEquations[i].left) \cup NamesIn(ToBeEquations[i].right)
        /\ \A i \in DOMAIN ToBeFunctions :
             LET x == ToBeFunctions[i]
             IN  /\ Has(got.functions, x.left.name)
                 /\ got.functions[x.left.name].kind = "Mathematical"
                 /\ (\A j \in DOMAIN ToBeFunctions :
                        ToBeFunctions[j].left.name = x.left.name => j <= i)
                      => /\ got.functions[x.left.name].node = x.right
                         /\ got.functions[x.left.name].arg_names =
                                [k \in DOMAIN x.left.args |-> x.left.args[k].name]
        /\ \A n \in DOMAIN got.functions :
             got.functions[n].kind = "Mathematical" =>
                 \E i \in DOMAIN ToBeFunctions : ToBeFunctions[i].left.name = n

\* build was given f(x, y) = sin(x) * y and y = sin(x) + g(u): one function,
\* and one equation that depends on y, sin, x, g and u
C15_Witness ==
    /\ Built
    /\ Len(asked.expressions) = 2
    /\ IsDefinition(asked.expressions[1])
    /\ Len(got.equations) = 1
    /\ got.equations[1].dependencies =
           { NameOf("y"), <<"s", "i", "n">>, NameOf("x"), NameOf("g"), NameOf("u") }
    /\ got.functions[NameOf("f")].arg_names = << NameOf("x"), NameOf("y") >>

\* ----------------------------------------------------------------- parser
\* A source string is a sequence of one-character strings.
\* err::ErrorKind, the kinds of the lexer and the parser
InvalidToken(character) == [tag |-> "InvalidToken", character |-> character]

InvalidMathSyntax(message) == [tag |-> "InvalidMathSyntax", message |-> message]

\* parse::Outcome: success!(x) is Ok(Some(x)); OkNone is Ok(None)
success(x) == [ok |-> TRUE, some |-> TRUE, val |-> x]

OkNone == [ok |-> TRUE, some |-> FALSE]

\* parse::Token
TokOp(op) == [t |-> "Op", op |-> op]

TokOpenParen == [t |-> "OpenParen"]

TokCloseParen == [t |-> "CloseParen"]

TokComma == [t |-> "Comma"]

TokEquals == [t |-> "Equals"]

TokNumber(value) == [t |-> "Number", value |-> value]

TokText(text) == [t |-> "Text", text |-> text]

\* Lexer::is_digit, with the value of the digit
DigitValue ==
    [c \in {"0", "1", "2", "3", "4", "5", "6", "7", "8", "9"} |->
        CASE c = "0" -> 0 [] c = "1" -> 1 [] c = "2" -> 2 [] c = "3" -> 3 [] c = "4" -> 4
          [] c = "5" -> 5 [] c = "6" -> 6 [] c = "7" -> 7 [] c = "8" -> 8 [] c = "9" -> 9]

is_digit(c) == c \in DOMAIN DigitValue

\* Lexer::is_character: a-z and A-Z
LetterChars ==
    { "a", "b", "c", "d", "e", "f", "g", "h", "i", "j", "k", "l", "m", "n", "o", "p", "q",
      "r", "s", "t", "u", "v", "w", "x", "y", "z",
      "A", "B", "C", "D", "E", "F", "G", "H", "I", "J", "K", "L", "M", "N", "O", "P", "Q",
      "R", "S", "T", "U", "V", "W", "X", "Y", "Z" }

is_character(c) == c \in LetterChars

\* the length of the longest prefix of s made of the characters of a set
\* (the loop around input.next_if)
RECURSIVE RunLength(_, _)
RunLength(s, chars) ==
    IF s = <<>> THEN 0
    ELSE IF Head(s) \notin chars THEN 0
    ELSE 1 + RunLength(Tail(s), chars)

\* the value of a string of digits
RECURSIVE Decimal(_)
Decimal(digits) ==
    IF digits = <<>> THEN 0
    ELSE 10 * Decimal(SubSeq(digits, 1, Len(digits) - 1)) + DigitValue[digits[Len(digits)]]

RECURSIVE Pow10(_)
Pow10(n) == IF n = 0 THEN 1 ELSE 10 * Pow10(n - 1)

\* str.parse::<f64>() on a string of digits and dots that begins with a
\* digit: digits, or digits "." digits (either side of the dot may be empty
\* but for the first digit); anything else is not a float
parse_f64(str) ==
    LET dots == { i \in DOMAIN str : str[i] = "." }
    IN  IF dots = {} THEN Ok(Int2F(Decimal(str)))
        ELSE IF Cardinality(dots) > 1
        THEN Err(InvalidMathSyntax("Unable to convert number to float. "))
        ELSE LET dot == CHOOSE i \in dots : TRUE
                 whole == SubSeq(str, 1, dot - 1)
                 fraction == SubSeq(str, dot + 1, Len(str))
             IN  Ok(Q(Decimal(whole) * Pow10(Len(fraction)) + Decimal(fraction),
                      Pow10(Len(fraction))))

\* Lexer::exec, the static tokens
StaticToken(character) ==
    CASE character = "+" -> Ok(TokOp("Add"))
      [] character = "-" -> Ok(TokOp("Sub"))
      [] character = "*" -> Ok(TokOp("Multi"))
      [] character = "/" -> Ok(TokOp("Div"))
      [] character = "^" -> Ok(TokOp("Exp"))
      [] character = "(" -> Ok(TokOpenParen)
      [] character = ")" -> Ok(TokCloseParen)
      [] character = "," -> Ok(TokComma)
      [] character = "=" -> Ok(TokEquals)
      [] OTHER -> Err(InvalidToken(character))

\* Lexer::exec on the input that is left: [out, input], out being the
\* Outcome<Token> and input what is left after it
exec(input) ==
    LET rest == SubSeq(input, RunLength(input, {" "}) + 1, Len(input))
    IN  IF rest = <<>> THEN [out |-> OkNone, input |-> rest]
        ELSE IF is_digit(Head(rest))
        THEN LET n == 1 + RunLength(Tail(rest), DOMAIN DigitValue \cup {"."})
                 float == parse_f64(SubSeq(rest, 1, n))
             IN  [out |-> IF float.ok THEN success(TokNumber(float.val)) ELSE float,
                  input |-> SubSeq(rest, n + 1, Len(rest))]
        ELSE IF is_character(Head(rest))
        THEN LET n == 1 + RunLength(Tail(rest), LetterChars \cup {"_"})
             IN  [out |-> success(TokText(SubSeq(rest, 1, n))),
                  input |-> SubSeq(rest, n + 1, Len(rest))]
        ELSE LET token == StaticToken(Head(rest))
             IN  [out |-> IF token.ok THEN success(token.val) ELSE token,
                  input |-> Tail(rest)]

\* Lexer::new: [input, current]; current is OkNone when no token is held
Lexer(input) == [input |-> input, current |-> OkNone]

\* Lexer::lex, after exec where it was needed: [out, lexer]
lexed(lexer, e) ==
    IF ~e.out.ok THEN [out |-> e.out, lexer |-> [lexer EXCEPT !.input = e.input]]
    ELSE [out |-> e.out, lexer |-> [input |-> e.input, current |-> e.out]]

\* Lexer::lex: the token at hand, read if none is held
lex(lexer) ==
    IF lexer.current.some THEN [out |-> lexer.current, lexer |-> lexer]
    ELSE lexed(lexer, exec(lexer.input))

\* Lexer::advance
advance(lexer) == [lexer EXCEPT !.current = OkNone]

\* Lexer::next, after lex
nexted(token) ==
    IF token.out.ok THEN [out |-> token.out, lexer |-> advance(token.lexer)] ELSE token

\* Lexer::next
next(lexer) == nexted(lex(lexer))

\* every token of a source, by next until it returns None (as test_lex
\* reads them), or the error of the lexer
RECURSIVE tokens_from(_, _)
tokens_after(token, tokens) ==
    IF ~token.out.ok THEN token.out
    ELSE IF ~token.out.some THEN Ok(tokens)
    ELSE tokens_from(token.lexer, Append(tokens, token.out.val))

tokens_from(lexer, tokens) == tokens_after(next(lexer), tokens)

tokens_of(source) == tokens_from(Lexer(source), <<>>)

\* The parser functions return [out, lexer]: the Outcome<Node> and the lexer
\* as they leave it.  accept!(x) returns Ok(None) from the function when x
\* is Ok(None), and the error when x is an error.
Stopped(r) == ~r.out.ok \/ ~r.out.some

Out(outcome, lexer) == [out |-> outcome, lexer |-> lexer]

IsOp(t, ops) == t.out.some /\ t.out.val.t = "Op" /\ t.out.val.op \in ops

Is(t, kind) == t.out.some /\ t.out.val.t = kind

RECURSIVE addition(_)
RECURSIVE multiplication(_)
RECURSIVE multiplication_loop(_, _)
RECURSIVE exponentiation(_)
RECURSIVE exponentiation_loop(_, _)
RECURSIVE atom(_)
RECURSIVE args_from(_, _, _)
RECURSIVE addition_loop(_, _)

\* atom, a parenthesised node: accept!(lexer.next()) != Token::CloseParen
atom_close(node, t) ==
    IF ~t.out.ok THEN t
    ELSE IF ~t.out.some THEN Out(OkNone, t.lexer)
    ELSE IF t.out.val.t # "CloseParen"
    THEN Out(Err(InvalidMathSyntax("No close param")), t.lexer)
    ELSE Out(success(node), t.lexer)

atom_paren(node) ==
    IF Stopped(node) THEN node ELSE atom_close(node.out.val, next(node.lexer))

\* atom, a function call: after the arguments
args_close(text, args, t) ==
    IF ~t.out.ok THEN t
    ELSE IF Is(t, "CloseParen") THEN Out(success(Fun(text, args)), t.lexer)
    ELSE Out(Err(InvalidMathSyntax("No close param.")), t.lexer)

\* atom, a function call: after one argument
args_comma(text, args, t) ==
    IF ~t.out.ok THEN t
    ELSE IF Is(t, "Comma") THEN args_from(text, args, advance(t.lexer))
    ELSE args_close(text, args, next(t.lexer))

args_param(text, args, p) ==
    IF ~p.out.ok THEN p
    ELSE IF ~p.out.some
    THEN Out(Err(InvalidMathSyntax("Expecting another parameter")), p.lexer)
    ELSE args_comma(text, Append(args, p.out.val), lex(p.lexer))

args_from(text, args, lexer) == args_param(text, args, addition(lexer))

\* atom, a Text token: a Variable unless an open parenthesis follows
atom_text(text, t) ==
    IF ~t.out.ok THEN t
    ELSE IF ~Is(t, "OpenParen") THEN Out(success(Var(text)), t.lexer)
    ELSE args_from(text, <<>>, advance(t.lexer))

atom_on(t) ==
    IF ~t.out.ok THEN t
    ELSE IF ~t.out.some THEN Out(OkNone, t.lexer)
    ELSE IF t.out.val.t = "Number"
    THEN Out(success(Num(t.out.val.value)), advance(t.lexer))
    ELSE IF t.out.val.t = "OpenParen" THEN atom_paren(addition(advance(t.lexer)))
    ELSE IF t.out.val.t = "Text" THEN atom_text(t.out.val.text, lex(advance(t.lexer)))
    ELSE Out(OkNone, t.lexer)

\* parse::atom
atom(lexer) == atom_on(lex(lexer))

exponentiation_right(left, a) ==
    IF Stopped(a) THEN a
    ELSE exponentiation_loop(Arith("Exp", left, a.out.val), lex(a.lexer))

\* exponentiation, the loop: t is the token at hand
exponentiation_loop(left, t) ==
    IF ~t.out.ok THEN t
    ELSE IF IsOp(t, {"Exp"}) THEN exponentiation_right(left, atom(advance(t.lexer)))
    ELSE Out(success(left), t.lexer)

exponentiation_left(a) ==
    IF Stopped(a) THEN a ELSE exponentiation_loop(a.out.val, lex(a.lexer))

\* parse::exponentiation
exponentiation(lexer) == exponentiation_left(atom(lexer))

signed_operand(e) ==
    IF ~e.out.ok THEN e
    ELSE IF e.out.some THEN Out(success(Arith("Sub", Num(Zero), e.out.val)), e.lexer)
    ELSE Out(Err(InvalidMathSyntax("Expected expression after '-' sign.")), e.lexer)

signed_on(t) ==
    IF ~t.out.ok THEN t
    ELSE IF ~t.out.some THEN Out(OkNone, t.lexer)
    ELSE IF IsOp(t, {"Sub"}) THEN signed_operand(exponentiation(advance(t.lexer)))
    ELSE exponentiation(t.lexer)

\* parse::signed
signed(lexer) == signed_on(lex(lexer))

\* multiplication, the end of an iteration of the loop: the juxtaposed
\* factor, if exponentiation finds one; `work` is what the iteration has
\* set so far
multiplication_juxtaposed(left, work, e) ==
    IF ~e.out.ok THEN e
    ELSE IF e.out.some
    THEN multiplication_loop(Arith("Multi", left, e.out.val), lex(e.lexer))
    ELSE IF work THEN multiplication_loop(left, lex(e.lexer))
    ELSE Out(success(left), e.lexer)

\* multiplication, after `*` or `/`: the right operand is one signed
multiplication_operand(operation, left, s) ==
    IF Stopped(s) THEN s
    ELSE multiplication_juxtaposed(Arith(operation, left, s.out.val), TRUE,
                                   exponentiation(s.lexer))

\* multiplication, after `(` and the addition in it
multiplication_paren_close(left, t) ==
    IF ~t.out.ok THEN t
    ELSE IF ~Is(t, "CloseParen")
    THEN Out(Err(InvalidMathSyntax("Expected close param")), t.lexer)
    ELSE multiplication_juxtaposed(left, TRUE, exponentiation(advance(t.lexer)))

multiplication_paren(left, a) ==
    IF Stopped(a) THEN a
    ELSE multiplication_paren_close(Arith("Multi", left, a.out.val), lex(a.lexer))

\* multiplication, an iteration of the loop: t is the token at hand (op)
multiplication_loop(left, t) ==
    IF ~t.out.ok THEN t
    ELSE IF ~t.out.some THEN Out(success(left), t.lexer)
    ELSE IF IsOp(t, {"Multi", "Div"})
    THEN multiplication_operand(t.out.val.op, left, signed(advance(t.lexer)))
    ELSE IF Is(t, "OpenParen") THEN multiplication_paren(left, addition(advance(t.lexer)))
    ELSE multiplication_juxtaposed(left, FALSE, exponentiation(t.lexer))

multiplication_left(s) ==
    IF Stopped(s) THEN s ELSE multiplication_loop(s.out.val, lex(s.lexer))

\* parse::multiplication
multiplication(lexer) == multiplication_left(signed(lexer))

addition_right(operation, left, m) ==
    IF Stopped(m) THEN m
    ELSE addition_loop(Arith(operation, left, m.out.val), lex(m.lexer))

addition_loop(left, t) ==
    IF ~t.out.ok THEN t
    ELSE IF IsOp(t, {"Add", "Sub"})
    THEN addition_right(t.out.val.op, left, multiplication(advance(t.lexer)))
    ELSE Out(success(left), t.lexer)

addition_left(m) ==
    IF Stopped(m) THEN m ELSE addition_loop(m.out.val, lex(m.lexer))

\* parse::addition
addition(lexer) == addition_left(multiplication(lexer))

expression_right(left, a) ==
    IF Stopped(a) THEN a ELSE Out(success(Cmp(left, a.out.val)), a.lexer)

\* expression: `if let Some(Token::Equals) = lexer.next()?`
expression_equals(left, t) ==
    IF ~t.out.ok THEN t
    ELSE IF Is(t, "Equals") THEN expression_right(left, addition(t.lexer))
    ELSE Out(success(left), t.lexer)

expression_left(a) ==
    IF Stopped(a) THEN a ELSE expression_equals(a.out.val, next(a.lexer))

\* parse::expression
expression(lexer) == expression_left(addition(lexer))

parsed(e) ==
    IF ~e.out.ok THEN e.out
    ELSE IF e.out.some THEN Ok(e.out.val)
    ELSE Err(InvalidMathSyntax("Premature end of input"))

\* parse::parse
parse(lexer) == parsed(expression(lexer))

\* ------------------------------------------------- the parser on its own
\* The sources handed to the lexer and the parser: strings, as sequences of
\* characters.
SinOf(x) == <<"s", "i", "n", "(">> \o x \o <<")">>

\* what a product or a quotient is written from: a left operand, `*` or
\* `/`, a right operand, and a factor written after the right operand with
\* no operator between them
Lefts == { <<"a">>, <<"3">> }

Operators == { <<"*">>, <<"/">>, <<" ", "*", " ">>, <<" ", "/", " ">> }

Rights == { <<"2">>, <<"b", " ">> }

Factors == { <<"x">>, SinOf(<<"x">>), <<"x", "^", "2">> }

Juxtaposed == [left : Lefts, operator : Operators, right : Rights, factor : Factors]

SourceOf(j) == j.left \o j.operator \o j.right \o j.factor

\* the names the engine derives from the name of a body: the symbols of
\* update_state!, and the bindings of eval_impl
DerivedNames(name) ==
    UNION { { Fmt(Symbols(kind)[i], name) : i \in 1..3 }
            \cup { Fmt(Bases(kind)[i].axis, name) : i \in 1..Dof(kind) }
            \cup { FmtV(Bases(kind)[i].axis, name) : i \in 1..Dof(kind) } :
            kind \in {"Linear", "Angular"} }
    \cup { Fmt(<<"m">>, name), Fmt(<<"I">>, name) }

\* names of bodies: letters, digits and underscores
BodyNames ==
    { <<"A">>, <<"B">>, <<"b", "a", "l", "l">>, <<"B", "1">>, <<"b", "_", "2">>,
      <<"a", "_", "b">>, <<"_", "c">>, <<"r", "2", "d">> }

Equalities ==
    { <<"a", " ", "=", " ", "b">>,
      <<"a", " ", "=", " ", "b", " ", "=", " ", "c">>,
      <<"a", "=", "b", "=", "c">>,
      <<"x", " ", "=", " ", "1", " ", "=", " ", "2">>,
      <<"a", " ", "=", " ", "b", " ", "=">>,
      <<"a", " ", "=", " ", "=", " ", "b">>,
      <<"a", "=", "=", "b">>,
      <<"=", "a", "=", "b">>,
      <<"a", " ", "=">> }

Expressions ==
    { <<>>,
      <<"2">> \o SinOf(<<"x">>) \o <<"^", "2">>,
      <<"2", "x">>,
      <<"a", "/", "2">>,
      <<"-", "x", "^", "2">>,
      <<"-">>,
      <<"a", " ", "+", " ", "b", "*", "c">>,
      <<"(", "a", "+", "b", ")", "(", "c", ")">>,
      <<"a", "(", "b", ")", "c">>,
      <<"(", "a">>,
      <<"a", "*", "(", "b">>,
      <<"f", "(", "a", ",", "b", ")">>,
      <<"f", "(", "a", ",">>,
      <<"f", "(", "a", ",", ")">>,
      <<"f", "(", "a", " ", "b">>,
      <<"1", ".", "5", "x">>,
      <<"1", ".", "2", ".", "3">>,
      <<"a", " ", "$", " ", "b">>,
      <<"a", "^", "b", "^", "c">>,
      <<"a", "^">> }

ParseSources ==
    { SourceOf(j) : j \in Juxtaposed }
    \cup UNION { DerivedNames(name) : name \in BodyNames }
    \cup Equalities
    \cup Expressions

ParseQueries == [fn : {"parse", "lex"}, source : ParseSources]

ParseInit ==
    /\ Library
    /\ asked \in ParseQueries
    /\ got = NoCall

\* parse(Lexer::new(source))
Parse ==
    /\ asked.fn = "parse"
    /\ got = NoCall
    /\ got' = parse(Lexer(asked.source))
    /\ UNCHANGED << machine, asked >>

\* Lexer::new(source), then next until it returns None
Lex ==
    /\ asked.fn = "lex"
    /\ got = NoCall
    /\ got' = tokens_of(asked.source)
    /\ UNCHANGED << machine, asked >>

ParseNext == Parse \/ Lex

ParseSpec == ParseInit /\ [][ParseNext]_vars

Parsed == asked.fn = "parse" /\ got # NoCall

Lexed == asked.fn = "lex" /\ got # NoCall

\* the node a source parses to on its own
NodeOf(source) == parse(Lexer(source)).val

\* the product of the right operand and the factor written after it is
\* grouped first
GroupedFirst(j) ==
    Arith(StaticToken(SelectSeq(j.operator, LAMBDA c : c # " ")[1]).val.op,
          NodeOf(j.left),
          Arith("Multi", NodeOf(j.right), NodeOf(j.factor)))

\* the quotient or product is grouped first, and then multiplied by the
\* factor
GroupedLast(j) ==
    Arith("Multi",
          Arith(StaticToken(SelectSeq(j.operator, LAMBDA c : c # " ")[1]).val.op,
                NodeOf(j.left), NodeOf(j.right)),
          NodeOf(j.factor))

TwoSinSquared == <<"2">> \o SinOf(<<"x">>) \o <<"^", "2">>

\* C16: in the AST parse produces, a factor written after the right operand
\* of `*` or `/` with no operator between them is multiplied with that
\* operand first (a/2x is a/(2x)), and 2sin(x)^2 parses as 2*(sin(x)^2).
C16_JuxtapositionBindsTighter ==
    /\ \A j \in Juxtaposed :
         (Parsed /\ asked.source = SourceOf(j)) => got = Ok(GroupedFirst(j))
    /\ (Parsed /\ asked.source = TwoSinSquared)
         => got = Ok(Arith("Multi", Num(Int2F(2)),
                           Arith("Exp", Fun(<<"s", "i", "n">>, << Var(<<"x">>) >>),
                                 Num(Int2F(2)))))

\* what parse does with such a source: the factor multiplies the whole
\* quotient or product (a/2x is (a/2)*x)
C16_JuxtapositionGroupsLast ==
    \A j \in Juxtaposed :
        (Parsed /\ asked.source = SourceOf(j)) => got = Ok(GroupedLast(j))

C16_Witness ==
    /\ Parsed
    /\ asked.source = <<"a", "/", "2", "x">>
    /\ got = Ok(Arith("Multi", Arith("Div", Var(<<"a">>), Num(Int2F(2))), Var(<<"x">>)))

C16_TwoSinSquared ==
    /\ Parsed
    /\ asked.source = TwoSinSquared
    /\ got = Ok(Arith("Multi", Num(Int2F(2)),
                      Arith("Exp", Fun(<<"s", "i", "n">>, << Var(<<"x">>) >>),
                            Num(Int2F(2)))))

\* the number of `=` tokens of a source
EqualsIn(source) == Len(SelectSeq(source, LAMBDA c : c = "="))

\* C17: parse accepts no source that holds two or more `=` tokens (such as
\* a = b = c): it returns a syntax error, never an AST.
C17_AtMostOneEquals ==
    (Parsed /\ EqualsIn(asked.source) >= 2)
        => (~got.ok /\ got.kind.tag = "InvalidMathSyntax")

\* what parse does with a = b = c: the AST of a = b, the rest is left unread
C17_Witness ==
    /\ Parsed
    /\ asked.source = <<"a", " ", "=", " ", "b", " ", "=", " ", "c">>
    /\ got = Ok(Cmp(Var(<<"a">>), Var(<<"b">>)))

\* parse reads no further than the expression: what follows a complete
\* expression with one `=` is ignored, `=` tokens included
C17_FirstComparisonOnly ==
    \A rest \in {<<" ", "=", " ", "c">>, <<" ", "=">>} :
        (Parsed /\ asked.source = <<"a", " ", "=", " ", "b">> \o rest)
            => got = Ok(NodeOf(<<"a", " ", "=", " ", "b">>))

\* a name of letters, digits and underscores with no leading digit
IsBodyName(name) ==
    /\ name # <<>>
    /\ \A i \in DOMAIN name : is_character(name[i]) \/ is_digit(name[i]) \/ name[i] = "_"
    /\ ~is_digit(name[1])

\* C18: for every body name of letters, digits and underscores with no
\* leading digit, each variable name the engine derives from it lexes as
\* one identifier token whose text is that name.
C18_DerivedNamesAreIdentifiers ==
    \A name \in BodyNames : \A derived \in DerivedNames(name) :
        (IsBodyName(name) /\ Lexed /\ asked.source = derived)
            => got = Ok(<< TokText(derived) >>)

\* what the lexer does with s_B1: the identifier ends before the digit
C18_Witness ==
    /\ Lexed
    /\ asked.source = <<"s", "_", "B", "1">>
    /\ got = Ok(<< TokText(<<"s", "_", "B">>), TokNumber(Int2F(1)) >>)

\* the names derived from a body name with no digit are identifiers
C18_WithoutDigits ==
    \A name \in BodyNames : \A derived \in DerivedNames(name) :
        (/\ IsBodyName(name)
         /\ \A i \in DOMAIN name : ~is_digit(name[i])
         /\ Lexed
         /\ asked.source = derived)
            => got = Ok(<< TokText(derived) >>)

\* ---------------------------------------------------------------- collide
\* The collider, Collide2D.  A Column<2> is a pair of scalars; an Option is
\* NoneOf or SomeOf(x).
NoneOf == [some |-> FALSE]

SomeOf(x) == [some |-> TRUE, val |-> x]

FLe(x, y) == FLt(x, y) \/ FEq(x, y)

FGe(x, y) == FLe(y, x)

\* f64::cos and f64::sin, at the angle where they are scalars of the model
cos(x) == CASE x = Zero -> One

sin(x) == CASE x = Zero -> Zero

\* rot_2d: the rows of the matrix
rot_2d(deg) == << << cos(deg), FNeg(sin(deg)) >>, << sin(deg), cos(deg) >> >>

\* Matrix::multiply of a Matrix<2, 2> and a Column<2>
multiply(matrix, column) ==
    [m \in 1..2 |->
        FAdd(FAdd(Zero, FMul(matrix[m][1], column[1])), FMul(matrix[m][2], column[2]))]

\* Matrix::det of [[a0, b0], [a1, b1]]
det(a, b) == FSub(FMul(a[1], b[2]), FMul(b[1], a[2]))

\* Shape::Manifold and Shape::Ellipse
Manifold(p) == [tag |-> "Manifold", points |-> p]

Ellipse(major, minor) == [tag |-> "Ellipse", major |-> major, minor |-> minor]

\* bases that returns the points in world space
bases_translated(body) ==
    LET shape == body.shape
        w == FDiv(shape.width, Two)
        h == FDiv(shape.height, Two)
        untransformed ==
            IF shape.tag = "Rec"
            THEN << << w, h >>, << FNeg(w), h >>, << FNeg(w), FNeg(h) >>, << w, FNeg(h) >> >>
            ELSE shape.points
    IN  [i \in DOMAIN untransformed |->
            VPlus(multiply(rot_2d(body.angular.displacement[1]), untransformed[i]),
                  body.linear.displacement)]

\* Collide2D::bases (an Ellipse is todo!(): collide checks for it)
bases(body) ==
    LET shape == body.shape
        w == FDiv(shape.width, Two)
        h == FDiv(shape.height, Two)
        untransformed ==
            IF shape.tag = "Rec"
            THEN << << w, h >>, << FNeg(w), h >>, << FNeg(w), FNeg(h) >>, << w, FNeg(h) >> >>
            ELSE shape.points
        transformation == rot_2d(body.angular.displacement[1])
    IN  [i \in DOMAIN untransformed |-> multiply(transformation, untransformed[i])]

\* v - w, as the code writes it: v.plus(&w.scale(-1.0))
Minus(v, w) == VPlus(v, VScale(w, FNeg(One)))

\* the index after i, around a sequence of n elements ((i + 1) % len)
After(i, n) == (i % n) + 1

\* the macro basis!: next point - current point
basis(bases_, i) == Minus(bases_[After(i, Len(bases_))], bases_[i])

\* intersect::slope
slope(col) == FDiv(col[2], col[1])

\* an intersect whose inverse has the adjugate without its signs
intersect_unsigned(a, a_basis, b, b_basis) ==
    IF FEq(slope(a_basis), slope(b_basis)) THEN NoneOf
    ELSE LET product == << FSub(b[1], a[1]), FSub(b[2], a[2]) >>
             scalar == FDiv(One, FSub(FMul(b_basis[1], a_basis[2]),
                                      FMul(a_basis[1], b_basis[2])))
             a_inv == << << FMul(scalar, b_basis[2]), FMul(scalar, b_basis[1]) >>,
                         << FMul(scalar, a_basis[2]), FMul(scalar, a_basis[1]) >> >>
         IN  SomeOf(multiply(a_inv, product))

\* Collide2D::intersect: SomeOf(<<t_a, t_b>>), or NoneOf where the slopes
\* are equal
intersect(a, a_basis, b, b_basis) ==
    IF FEq(slope(a_basis), slope(b_basis)) THEN NoneOf
    ELSE LET product == << FSub(b[1], a[1]), FSub(b[2], a[2]) >>
             scalar == FDiv(One, FSub(FMul(b_basis[1], a_basis[2]),
                                      FMul(a_basis[1], b_basis[2])))
             a_inv == << << FMul(scalar, FNeg(b_basis[2])), FMul(scalar, b_basis[1]) >>,
                         << FMul(scalar, FNeg(a_basis[2])), FMul(scalar, a_basis[1]) >> >>
         IN  SomeOf(multiply(a_inv, product))

\* Collide2D::intersection_point, after intersect
intersection_at(a, a_basis, t) ==
    IF ~t.some THEN NoneOf
    ELSE IF /\ FGe(t.val[1], Zero) /\ FLe(t.val[1], One)
            /\ FGe(t.val[2], Zero) /\ FLe(t.val[2], One)
    THEN SomeOf(VPlus(a, VScale(a_basis, t.val[1])))
    ELSE NoneOf

\* Collide2D::intersection_point
intersection_point(a, a_basis, b, b_basis) ==
    intersection_at(a, a_basis, intersect(a, a_basis, b, b_basis))

\* ptl_distance, the distance of a point to the line through a and b.  The
\* distance is a square root; the model holds its square, which is a scalar
\* of the model and orders as the distance does.
ptl_distance(point, a, b) ==
    LET numerator ==
            FSub(FAdd(FSub(FMul(FSub(b[2], a[2]), point[1]),
                           FMul(FSub(b[1], a[1]), point[2])),
                      FMul(b[1], a[2])),
                 FMul(b[2], a[1]))
        denominator == FAdd(FPowNat(FSub(b[2], a[2]), 2), FPowNat(FSub(b[1], a[1]), 2))
    IN  FDiv(FPowNat(FAbs(numerator), 2), denominator)

\* Vector::unit.  The components of a unit vector are square roots; the
\* model holds the signed square x * |x| of each, which is a scalar of the
\* model, keeps the sign, and is equal exactly where the components are.
unit(v) ==
    LET x == FAdd(FAdd(Zero, FPowNat(v[1], 2)), FPowNat(v[2], 2))
    IN  IF FEq(x, Zero) THEN VEmpty(Len(v))
        ELSE IF IsFinite(x) THEN [i \in DOMAIN v |-> FDiv(FMul(v[i], FAbs(v[i])), x)]
        ELSE VScale(v, FDiv(One, x))

RECURSIVE Flatten(_)
Flatten(groups) == IF groups = <<>> THEN <<>> ELSE Head(groups) \o Flatten(Tail(groups))

\* the values of the SomeOf elements of a sequence of options, in order
Values(options) ==
    LET found == SelectSeq(options, LAMBDA o : o.some)
    IN  [k \in DOMAIN found |-> found[k].val]

\* collide, the inner loop: the intersections of the face of A at point_a
\* with every face of B, in the order of the faces of B
intersections_of(point_a, basis_a, b_bases, b_displacement) ==
    Values([j \in DOMAIN b_bases |->
               intersection_point(point_a, basis_a,
                                  VPlus(b_bases[j], b_displacement), basis(b_bases, j))])

\* collide, the outer loop: intersection_groups
intersection_groups_of(a_bases, a_displacement, b_bases, b_displacement) ==
    [i \in DOMAIN a_bases |->
        intersections_of(VPlus(a_bases[i], a_displacement), basis(a_bases, i),
                         b_bases, b_displacement)]

\* the fold of plus from Column::empty()
RECURSIVE SumOf(_)
SumOf(points) ==
    IF points = <<>> THEN VEmpty(LINEAR_DOF)
    ELSE VPlus(SumOf(SubSeq(points, 1, Len(points) - 1)), points[Len(points)])

\* the key the groups are sorted by: atan(y - x) of the point relative to
\* the collision point; atan is increasing, so y - x orders as it does
sort_key(point, collision_point) ==
    LET a == Minus(point, collision_point)
    IN  FSub(a[2], a[1])

\* sort_unstable_by: the points in the order of their keys.  The order of
\* points with equal keys is not specified: `tie` chooses between the order
\* they had ("kept") and the opposite ("reversed").
RECURSIVE sort_unstable_by(_, _, _)
sort_unstable_by(group, collision_point, tie) ==
    IF group = <<>> THEN <<>>
    ELSE LET sorted == sort_unstable_by(SubSeq(group, 1, Len(group) - 1),
                                        collision_point, tie)
             x == group[Len(group)]
             key == sort_key(x, collision_point)
             before ==
                 SelectSeq(sorted,
                           LAMBDA y : \/ FLt(sort_key(y, collision_point), key)
                                      \/ /\ tie = "kept"
                                         /\ sort_key(y, collision_point) = key)
         IN  before \o << x >> \o SubSeq(sorted, Len(before) + 1, Len(sorted))

\* f64::total_cmp is Less.  A NaN is below every number when its sign bit is
\* set and above every number when it is not; the sign of a NaN that an
\* operation produces is not specified: nan_negative chooses.
total_less(x, y, nan_negative) ==
    IF IsNaN(x) THEN nan_negative /\ ~IsNaN(y)
    ELSE IF IsNaN(y) THEN ~nan_negative
    ELSE FLt(x, y)

\* Iterator::min_by with total_cmp over a sequence of distances: the place
\* of the first of the least (total_cmp is a total order, so the fold of
\* min_by ends on it)
min_total(distances, nan_negative) ==
    CHOOSE k \in DOMAIN distances :
        \A j \in DOMAIN distances :
            IF j < k THEN total_less(distances[k], distances[j], nan_negative)
            ELSE ~total_less(distances[j], distances[k], nan_negative)

\* the face of the intersection polygon that is the nearest to the
\* collision point (the distances are computed once, as a sequence)
min_face(faces, collision_point, nan_negative) ==
    faces[min_total([k \in DOMAIN faces |->
                        ptl_distance(collision_point, faces[k][1], faces[k][2])] \o <<>>,
                    nan_negative)]

\* intersections.iter().zip(intersections.iter().cycle().skip(1))
Zipped(points) == [k \in DOMAIN points |-> << points[k], points[After(k, Len(points))] >>]

\* do_sum: the shoelace sums of every second polygon from `skip`, halved
shoelace(poly) == FSum([k \in DOMAIN poly |-> det(poly[k], poly[After(k, Len(poly))])])

do_sum(polygons, skip) ==
    LET chosen == SelectSeq([k \in DOMAIN polygons |-> k],
                            LAMBDA k : k > skip /\ (k - skip) % 2 = 1)
    IN  FDiv(FSum([k \in DOMAIN chosen |-> shoelace(polygons[chosen[k]])]), Two)

\* collide, the loop over the points of A that cuts A along the line of the
\* normal face: st is [polygons, side, panic].  One iteration, at the point
\* number i of the points (world space) of A:
cut_side(st, point, normal, collision_point, normal_face) ==
    IF ~FEq(st.side, Zero) THEN st
    ELSE LET t == intersect(point, normal, collision_point, normal_face)
         IN  IF ~t.some THEN [st EXCEPT !.panic = TRUE]
             ELSE IF ~FEq(t.val[1], Zero)
             THEN [st EXCEPT !.side = FDiv(t.val[1], FAbs(t.val[1]))]
             ELSE st

\* the point is pushed on the last polygon; where its face crosses the line
\* the crossing ends that polygon and begins the next
cut_face(st, point, face, t) ==
    LET len == Len(st.polygons)
        pushed == [st.polygons EXCEPT ![len] = Append(@, point)]
    IN  IF t.some /\ FGe(t.val[1], Zero) /\ FLt(t.val[1], One)
        THEN LET intersection_point_ == VPlus(point, VScale(face, t.val[1]))
             IN  [st EXCEPT !.polygons =
                     Append([pushed EXCEPT ![len] = Append(@, intersection_point_)],
                            << intersection_point_ >>)]
        ELSE [st EXCEPT !.polygons = pushed]

\* after the last point, the last polygon is popped and joined to the first
\* (when there is no other polygon, the popped one is dropped)
cut_close(st, last) ==
    IF ~last THEN st
    ELSE LET len == Len(st.polygons)
             pop == st.polygons[len]
             rest == SubSeq(st.polygons, 1, len - 1)
         IN  [st EXCEPT !.polygons =
                 IF rest = <<>> THEN rest ELSE [rest EXCEPT ![1] = @ \o pop]]

cut_step(st, points, i, normal, collision_point, normal_face) ==
    LET point == points[i]
        face == Minus(points[After(i, Len(points))], point)
        sided == cut_side(st, point, normal, collision_point, normal_face)
    IN  cut_close(cut_face(sided, point, face,
                           intersect(point, face, collision_point, normal_face)),
                  i = Len(points))

\* the loop up to the point number i (a panic ends it)
RECURSIVE cut(_, _, _, _, _)
cut(points, i, normal, collision_point, normal_face) ==
    IF i = 0 THEN [polygons |-> << <<>> >>, side |-> Zero, panic |-> FALSE]
    ELSE LET st == cut(points, i - 1, normal, collision_point, normal_face)
         IN  IF st.panic THEN st
             ELSE cut_step(st, points, i, normal, collision_point, normal_face)

\* Iterator::min_by with partial_cmp(..).unwrap(): NoneOf where a distance
\* that is compared is NaN (the unwrap panics), the first of the least
\* otherwise
min_partial(distances) ==
    IF Len(distances) = 1 THEN SomeOf(distances[1])
    ELSE IF \E k \in DOMAIN distances : IsNaN(distances[k]) THEN NoneOf
    ELSE SomeOf(distances[min_total(distances, FALSE)])

\* collide, the penetration depth: the least distance of the collision
\* point to a face of A (its square, see ptl_distance)
penetration_depth(points, collision_point) ==
    min_partial([k \in DOMAIN points |->
                    ptl_distance(collision_point, points[k], points[After(k, Len(points))])]
                \o <<>>)

\* what a call that panics returns to no one
Panicked == [hit |-> FALSE, panic |-> TRUE]

\* Rust computes a value where it is bound: e, with x computed before it
Bound(x, e) == IF x = x THEN e ELSE e

\* collide, from the area modifier on
collide_result(collision_point, normal, side, area_modifier, depth) ==
    Some(Collision(collision_point, unit(VScale(normal, FMul(side, area_modifier))),
                   depth))

\* collide, from the polygons on
collide_cut(collision_point, normal, cuts, depth) ==
    IF cuts.panic \/ ~depth.some THEN Panicked
    ELSE IF FGt(do_sum(cuts.polygons, 0), do_sum(cuts.polygons, 1))
    THEN collide_result(collision_point, normal, cuts.side, One, depth.val)
    ELSE collide_result(collision_point, normal, cuts.side, FNeg(One), depth.val)

\* collide, from the normal face on
collide_face(points, collision_point, normal_face) ==
    Bound(normal_face,
          collide_cut(collision_point, << FNeg(normal_face[2]), normal_face[1] >>,
                      cut(points, Len(points), << FNeg(normal_face[2]), normal_face[1] >>,
                          collision_point, normal_face),
                      penetration_depth(points, collision_point)))

\* collide, from the nearest face on
collide_nearest(points, collision_point, face) ==
    Bound(face, collide_face(points, collision_point, Minus(face[1], face[2])))

\* collide, from the sorted intersections on (min_by(..)? is None where
\* there is no face)
collide_sorted(points, intersections, collision_point, nan_negative) ==
    IF intersections = <<>> THEN NoCollision
    ELSE collide_nearest(points, collision_point,
                         min_face(Zipped(intersections), collision_point, nan_negative))

\* collide, from the collision point on
collide_at(points, groups, collision_point, tie, nan_negative) ==
    Bound(<< points, collision_point >>,
          collide_sorted(points,
                         Flatten([g \in DOMAIN groups |->
                                     sort_unstable_by(groups[g], collision_point, tie)]),
                         collision_point, nan_negative))

\* collide, from the intersection groups on
collide_groups(points, groups, count, tie, nan_negative) ==
    IF count = 0 THEN NoCollision
    ELSE collide_at(points, groups,
                    VScale(SumOf(Flatten(groups)), FDiv(One, Int2F(count))),
                    tie, nan_negative)

collide_bases(a_bases, a_displacement, groups, tie, nan_negative) ==
    collide_groups([i \in DOMAIN a_bases |-> VPlus(a_bases[i], a_displacement)],
                   groups, Len(Flatten(groups)), tie, nan_negative)

\* Collide2D::collide(a, b).  The normal and the depth of the collision it
\* returns are held as signed squares (see unit and ptl_distance).
collide(a, b, tie, nan_negative) ==
    IF a.shape.tag = "Ellipse" \/ b.shape.tag = "Ellipse" THEN Panicked
    ELSE collide_bases(bases(a), a.linear.displacement,
                       intersection_groups_of(bases(a), a.linear.displacement,
                                              bases(b), b.linear.displacement),
                       tie, nan_negative)

\* ----------------------------------------------- the collider on its own
\* the shapes handed to the collider: rectangles, and a diamond, a triangle
\* and a wedge as manifolds (counter-clockwise), all convex
Diamond == Manifold(<< V2(2, 0), V2(0, 2), V2(-2, 0), V2(0, -2) >>)

Triangle == Manifold(<< V2(-1, -1), V2(2, -1), V2(-1, 2) >>)

Wedge == Manifold(<< V2(-2, -1), V2(2, -1), V2(0, 1) >>)

CollideShapes ==
    { Rec(2, 2), Rec(4, 4), Rec(4, 2), Rec(2, 6), Diamond, Triangle, Wedge,
      Ellipse(Two, One) }

\* where the second body is; the first is at the origin
CollidePositions ==
    { V2(0, 0), V2(1, 0), V2(2, 0), V2(3, 0), V2(5, 0), V2(0, 1), V2(1, 1), V2(2, 2),
      V2(-1, 2), V2(0, -3), << Half, Zero >>, << Half, FNeg(Half) >> }

Ties == {"kept", "reversed"}

CollideQueries ==
    { [fn |-> "collide",
       a |-> Body(NameA, sa, V2(0, 0), VEmpty(LINEAR_DOF), << Zero >>, weightless),
       b |-> Body(NameB, sb, at, VEmpty(LINEAR_DOF), << Zero >>, weightless),
       tie |-> tie, nan_negative |-> nan_negative] :
        sa \in CollideShapes, sb \in CollideShapes, at \in CollidePositions,
        tie \in [ab : Ties, ba : Ties], nan_negative \in BOOLEAN }

CollideInit ==
    /\ Library
    /\ asked \in CollideQueries
    /\ got = NoCall

\* collide(a, b) and collide(b, a)
CollidePair ==
    /\ asked.fn = "collide"
    /\ got = NoCall
    /\ got' = [ab |-> collide(asked.a, asked.b, asked.tie.ab, asked.nan_negative),
               ba |-> collide(asked.b, asked.a, asked.tie.ba, asked.nan_negative)]
    /\ UNCHANGED << machine, asked >>

CollideNext == CollidePair

CollideSpec == CollideInit /\ [][CollideNext]_vars

Collided == asked.fn = "collide" /\ got # NoCall

\* the points of a body in world space
PointsIn(body) ==
    [i \in DOMAIN bases(body) |-> VPlus(bases(body)[i], body.linear.displacement)]

IsPolygon(body) == body.shape.tag \in {"Rec", "Manifold"}

\* a polygon is convex: it turns the same way at every point
Turn(points, i) ==
    det(Minus(points[After(i, Len(points))], points[i]),
        Minus(points[After(After(i, Len(points)), Len(points))],
              points[After(i, Len(points))]))

IsConvex(points) ==
    /\ Len(points) >= 3
    /\ \/ \A i \in DOMAIN points : FGt(Turn(points, i), Zero)
       \/ \A i \in DOMAIN points : FLt(Turn(points, i), Zero)

\* two convex polygons have no point in common exactly when a line along a
\* face of one of them separates them
Across(points, i) ==
    LET face == Minus(points[After(i, Len(points))], points[i])
    IN  << FNeg(face[2]), face[1] >>

Apart(p, q, axis) ==
    \/ \A i \in DOMAIN p : \A j \in DOMAIN q : FLt(VDot(p[i], axis), VDot(q[j], axis))
    \/ \A i \in DOMAIN p : \A j \in DOMAIN q : FGt(VDot(p[i], axis), VDot(q[j], axis))

Separated(p, q) ==
    \/ \E i \in DOMAIN p : Apart(p, q, Across(p, i))
    \/ \E j \in DOMAIN q : Apart(p, q, Across(q, j))

\* every point of p is strictly inside the convex polygon q
Inside(p, q) ==
    \A i \in DOMAIN p : \A j \in DOMAIN q :
        LET side == VDot(Minus(p[i], q[j]), Across(q, j))
            turn == Turn(q, j)
        IN  FGt(FMul(side, turn), Zero)

Intersecting ==
    /\ IsPolygon(asked.a) /\ IsPolygon(asked.b)
    /\ IsConvex(PointsIn(asked.a)) /\ IsConvex(PointsIn(asked.b))
    /\ ~Separated(PointsIn(asked.a), PointsIn(asked.b))

\* C19: for two convex polygons whose intersection region is not empty (one
\* inside the other included), collide(A, B) and collide(B, A) both return
\* Some.
C19_IntersectingCollide ==
    (Collided /\ Intersecting) => (got.ab.hit /\ got.ba.hit)

\* one polygon strictly inside the other: no face crosses a face
C19_InsideIsNone ==
    (/\ Collided
     /\ IsPolygon(asked.a) /\ IsPolygon(asked.b)
     /\ IsConvex(PointsIn(asked.a)) /\ IsConvex(PointsIn(asked.b))
     /\ \/ Inside(PointsIn(asked.a), PointsIn(asked.b))
        \/ Inside(PointsIn(asked.b), PointsIn(asked.a)))
        => (got.ab = NoCollision /\ got.ba = NoCollision)

C19_Witness ==
    /\ Collided
    /\ asked.a.shape = Rec(4, 4)
    /\ asked.b.shape = Rec(2, 2)
    /\ asked.b.linear.displacement = V2(0, 0)
    /\ Inside(PointsIn(asked.b), PointsIn(asked.a))
    /\ got.ab = NoCollision
    /\ got.ba = NoCollision

\* collide(A, B) and collide(B, A) both return Some
BothCollide == Collided /\ got.ab.hit /\ got.ba.hit

\* C20: whenever collide(A, B) and collide(B, A) both return Some, their
\* contact points are equal and their normals are antiparallel: the normal of
\* (A, B) is the opposite of the normal of (B, A).
C20_PointsEqualNormalsOpposite ==
    BothCollide =>
        /\ got.ab.collision.point = got.ba.collision.point
        /\ FEq(got.ab.collision.normal[1], FNeg(got.ba.collision.normal[1]))
        /\ FEq(got.ab.collision.normal[2], FNeg(got.ba.collision.normal[2]))

\* the contact points are equal (where the sums are exact)
C20_PointsEqual ==
    BothCollide => got.ab.collision.point = got.ba.collision.point

\* the wedge over the corner of a rectangle: the normals are (1, -2)/sqrt 5
\* and (1, 2)/sqrt 5, held as signed squares
C20_WedgeOnRectangle ==
    /\ BothCollide
    /\ asked.a.shape = Wedge
    /\ asked.b.shape = Rec(2, 6)
    /\ asked.b.linear.displacement = V2(0, -3)
    /\ got.ab.collision.point = << Zero, Q(-1, 3) >>
    /\ got.ab.collision.normal = << Q(1, 5), Q(-4, 5) >>
    /\ got.ba.collision.normal = << Q(1, 5), Q(4, 5) >>

\* ----------------------------------- bases and intersect on their own
\* the sides of the rectangles handed to bases
MaxSide == 4

\* the bodies handed to bases: rectangles and manifolds at angle 0, anywhere
BasesBodies ==
    { Body(NameA, shape, at, VEmpty(LINEAR_DOF), << Zero >>, weightless) :
        shape \in { Rec(w, h) : w \in 1..MaxSide, h \in 1..MaxSide }
                  \cup { Diamond, Triangle, Wedge },
        at \in CollidePositions }

\* the segments handed to intersect: where they begin, and their directions
\* (not the zero vector)
SegmentStarts == { V2(0, 0), V2(1, 0), V2(0, 2), V2(-1, 1), << Half, FNeg(Half) >> }

SegmentBases ==
    { V2(1, 0), V2(-2, 0), V2(0, 1), V2(0, -2), V2(1, 1), V2(2, 1), V2(-1, 2), V2(2, -2),
      << Half, Zero >>, V2(0, 0) }

GeometryQueries ==
    [fn : {"bases"}, body : BasesBodies]
    \cup
    [fn : {"intersect"}, a : { V2(0, 0), V2(1, -1) }, a_basis : SegmentBases,
     b : SegmentStarts, b_basis : SegmentBases]

GeometryInit ==
    /\ Library
    /\ asked \in GeometryQueries
    /\ got = NoCall

\* Collide2D::bases(body)
FormBases ==
    /\ asked.fn = "bases"
    /\ got = NoCall
    /\ got' = bases(asked.body)
    /\ UNCHANGED << machine, asked >>

\* Collide2D::intersect and Collide2D::intersection_point of two segments
Intersect ==
    /\ asked.fn = "intersect"
    /\ got = NoCall
    /\ got' = [t |-> intersect(asked.a, asked.a_basis, asked.b, asked.b_basis),
               point |-> intersection_point(asked.a, asked.a_basis,
                                            asked.b, asked.b_basis)]
    /\ UNCHANGED << machine, asked >>

GeometryNext == FormBases \/ Intersect

GeometrySpec == GeometryInit /\ [][GeometryNext]_vars

Formed == asked.fn = "bases" /\ got # NoCall

Intersected == asked.fn = "intersect" /\ got # NoCall

\* the vertex list of a rectangle, body-local
Corners(shape) ==
    LET w == FDiv(shape.width, Two)
        h == FDiv(shape.height, Two)
    IN  << << w, h >>, << FNeg(w), h >>, << FNeg(w), FNeg(h) >>, << w, FNeg(h) >> >>

\* C21: for a body of shape Rec(w, h) at angle 0, bases returns the list
\* (+w/2, +h/2), (-w/2, +h/2), (-w/2, -h/2), (+w/2, -h/2) in that order,
\* whatever the linear displacement of the body is.
C21_RectangleBases ==
    (Formed /\ asked.body.shape.tag = "Rec" /\ asked.body.angular.displacement = << Zero >>)
        => got = Corners(asked.body.shape)

C21_Witness ==
    /\ Formed
    /\ asked.body.shape = Rec(4, 2)
    /\ asked.body.linear.displacement = V2(1, 1)
    /\ got = << V2(2, 1), V2(-2, 1), V2(-2, -1), V2(2, -1) >>

\* ------------------------------------ Environment::build on source strings
\* the first statement of build: every source parsed, in order, up to the
\* first that fails (collect::<EngineResult<Vec<_>>>()?)
parse_all(sources) == [i \in DOMAIN sources |-> parse(Lexer(sources[i]))]

collect_results(results) ==
    IF \E i \in DOMAIN results : ~results[i].ok
    THEN results[CHOOSE i \in DOMAIN results :
                     /\ ~results[i].ok
                     /\ \A j \in 1..(i - 1) : results[j].ok]
    ELSE Ok([i \in DOMAIN results |-> results[i].val])

\* the sources of the short lists: at most MaxSources of these
MaxSources == 2

SourcePool ==
    { <<>>,
      <<"a", " ", "=", " ", "1">>,
      <<"b", " ", "=", " ", "a", " ", "+", " ", "1">>,
      <<"a", " ", "=", " ", "b">>,
      <<"f", "(", "x", ")", " ", "=", " ", "x", " ", "+", " ", "1">>,
      <<"b", " ", "=", " ", "f", "(", "a", ")">>,
      <<"a", " ", "+", " ", "1">>,
      <<"(", "a", " ", "=", " ", "1", ")">>,
      <<"a", " ", "=", " ", "b", " ", "=", " ", "1">>,
      <<"b", " ", "=", " ", "f", "(", "a", " ", "=", " ", "1", ")">> }

\* the long lists: Many equations, or Many equations after a function
\* definition, or around one
Many == 258

LongLengths == { Many - 3, Many - 2, Many - 1, Many }

LongList(n, k) ==
    [i \in 1..n |-> IF i = k THEN <<"f", "(", "x", ")", "=", "x">> ELSE <<"a", "=", "1">>]

SourceLists ==
    UNION { [1..n -> SourcePool] : n \in 0..MaxSources }
    \cup { LongList(n, k) : n \in LongLengths, k \in {0, 2} }

\* Environment::build(sources, builtin::functions(), constants), and then
\* Environment::evaluate(name, no overrides) on what it returned
SourceQueries ==
    [fn : {"build"}, sources : SourceLists, overflow_checks : BOOLEAN,
     name : { NameOf("a"), NameOf("b") }]

SourceInit ==
    /\ Library
    /\ asked \in SourceQueries
    /\ got = NoCall

\* build, after the sources are parsed and collected: the ? operator
\* returns the error of a source that does not parse, else the loop begins
BuildParsed(expressions) ==
    IF expressions.ok
    THEN [at |-> "loop", expressions |-> expressions.val, i |-> 1,
          st |-> BuildState(BuiltinFunctions, EvalConstants, asked.overflow_checks)]
    ELSE [at |-> "returned", r |-> expressions]

\* build, up to its loop
BuildParse ==
    /\ asked.fn = "build"
    /\ got = NoCall
    /\ got' = BuildParsed(collect_results(parse_all(asked.sources)))
    /\ UNCHANGED << machine, asked >>

\* build, one iteration of its loop
BuildLoop ==
    /\ asked.fn = "build"
    /\ got # NoCall
    /\ got.at = "loop"
    /\ got.i <= Len(got.expressions)
    /\ LET st == build_step(got.expressions[got.i], got.st)
       IN  got' = IF st.panic THEN [at |-> "panicked", st |-> st]
                  ELSE [got EXCEPT !.i = @ + 1, !.st = st]
    /\ UNCHANGED << machine, asked >>

\* build, after its loop
BuildReturn ==
    /\ asked.fn = "build"
    /\ got # NoCall
    /\ got.at = "loop"
    /\ got.i > Len(got.expressions)
    /\ got' = [at |-> "returned", r |-> Ok(Environment(got.st))]
    /\ UNCHANGED << machine, asked >>

\* Environment::evaluate on the environment build returned, for the short
\* lists
EvaluateBuilt ==
    /\ asked.fn = "build"
    /\ got # NoCall
    /\ got.at = "returned"
    /\ got.r.ok
    /\ Len(asked.sources) <= MaxSources
    /\ got' = [at |-> "evaluated", r |-> got.r,
               value |-> env_evaluate(got.r.val, asked.name, EmptyMap)]
    /\ UNCHANGED << machine, asked >>

SourceNext == BuildParse \/ BuildLoop \/ BuildReturn \/ EvaluateBuilt

SourceSpec == SourceInit /\ [][SourceNext]_vars

\* build has returned
BuildReturned == asked.fn = "build" /\ got # NoCall /\ got.at \in {"returned", "evaluated"}

\* a list holds the empty string, and every other source of it parses
WithEmptySource ==
    /\ \E i \in DOMAIN asked.sources : asked.sources[i] = <<>>
    /\ \A i \in DOMAIN asked.sources :
         asked.sources[i] # <<>> => parse(Lexer(asked.sources[i])).ok

\* C22: build returns Ok when a source string of its list is the empty
\* string; the empty string contributes no equation and no function.
C22_EmptySourceIsOk ==
    (BuildReturned /\ WithEmptySource) =>
        /\ got.r.ok
        /\ got.r.val =
               build([i \in 1..Len(SelectSeq(asked.sources, LAMBDA x : x # <<>>)) |->
                         parse(Lexer(SelectSeq(asked.sources, LAMBDA x : x # <<>>)[i])).val],
                     BuiltinFunctions, EvalConstants)

\* the empty string does not parse, and build returns the error of parse
C22_EmptySourceIsAnError ==
    (BuildReturned /\ \E i \in DOMAIN asked.sources : asked.sources[i] = <<>>)
        => (~got.r.ok /\ got.r.kind.tag = "InvalidMathSyntax")

C22_Witness ==
    /\ BuildReturned
    /\ asked.sources = << <<>> >>
    /\ got.r = Err(InvalidMathSyntax("Premature end of input"))

\* ---------------------------------------------------------------------------
\* the call tree of Environment::evaluate
\* ---------------------------------------------------------------------------

\* One branch of an evaluation, call by call: the evaluation of a Variable,
\* the root-find of one of its candidate equations in the pushed frame, the
\* evaluation of a Variable of the root expression, and so on.  The memo is
\* left out: a memo binding only ends a branch earlier (Frame::lookup).

\* a = b ; b = a ; b = d + 1 ; d = a ; a = c - 2 ; a + b = 2 ; d = 1
DescentPool ==
    { Cmp(Var(NameOf("a")), Var(NameOf("b"))),
      Cmp(Var(NameOf("b")), Var(NameOf("a"))),
      Cmp(Var(NameOf("b")), Arith("Add", Var(NameOf("d")), Num(One))),
      Cmp(Var(NameOf("d")), Var(NameOf("a"))),
      Cmp(Var(NameOf("a")), Arith("Sub", Var(NameOf("c")), Num(Two))),
      Cmp(Arith("Add", Var(NameOf("a")), Var(NameOf("b"))), Num(Two)),
      Cmp(Var(NameOf("d")), Num(One)) }

\* the largest number of equations of an environment
MaxEquations == 3

\* environments with no user-defined function (c is a constant)
DescentEnvironments ==
    { build(x, BuiltinFunctions, EvalConstants) :
        x \in UNION { [1..n -> DescentPool] : n \in 0..MaxEquations } }

DescentQueries ==
    [fn : {"descend"}, env : DescentEnvironments,
     name : { NameOf(l) : l \in {"a", "b", "d"} }]

DescentInit ==
    /\ Library
    /\ asked \in DescentQueries
    /\ got = NoCall

\* Environment::evaluate: the Variable, in a fresh frame
EvaluateVariable ==
    /\ asked.fn = "descend"
    /\ got = NoCall
    /\ got' = [at |-> "variable", name |-> asked.name,
               frame |-> [environment |-> asked.env, stack |-> {}, local |-> EmptyMap],
               solving |-> <<>>]
    /\ UNCHANGED << machine, asked >>

\* a root-find that does not ask whether the equation is visited
RootSolveVisited ==
    /\ asked.fn = "descend"
    /\ got # NoCall
    /\ got.at = "variable"
    /\ ~Has(got.frame.local, got.name)
    /\ ~Has(got.frame.environment.constants, got.name)
    /\ \E k \in DOMAIN got.frame.environment.equations :
         LET eq == got.frame.environment.equations[k]
         IN  /\ got.name \in eq.dependencies
             /\ eq.node.type = "Comparison"
             /\ got' = [at |-> "root",
                        node |-> Arith("Sub", eq.node.left, eq.node.right),
                        frame |-> [push(got.frame, eq) EXCEPT
                                      !.local = Insert(@, got.name, Zero)],
                        solving |-> Append(got.solving, eq.id)]
    /\ UNCHANGED << machine, asked >>

\* Node::Variable: the Variable is neither a local nor a constant, and
\* find_root is called for a candidate equation that is not visited, in the
\* pushed frame, where the target is a local
RootSolve ==
    /\ asked.fn = "descend"
    /\ got # NoCall
    /\ got.at = "variable"
    /\ ~Has(got.frame.local, got.name)
    /\ ~Has(got.frame.environment.constants, got.name)
    /\ \E k \in DOMAIN got.frame.environment.equations :
         LET eq == got.frame.environment.equations[k]
         IN  /\ got.name \in eq.dependencies
             /\ ~visited(got.frame, eq)
             /\ eq.node.type = "Comparison"
             /\ got' = [at |-> "root",
                        node |-> Arith("Sub", eq.node.left, eq.node.right),
                        frame |-> [push(got.frame, eq) EXCEPT
                                      !.local = Insert(@, got.name, Zero)],
                        solving |-> Append(got.solving, eq.id)]
    /\ UNCHANGED << machine, asked >>

\* find_root: evaluate(node, frame) reaches a Variable of the root expression
EvaluateRoot ==
    /\ asked.fn = "descend"
    /\ got # NoCall
    /\ got.at = "root"
    /\ \E name \in analyze_without_functions(got.node) :
         got' = [at |-> "variable", name |-> name, frame |-> got.frame,
                 solving |-> got.solving]
    /\ UNCHANGED << machine, asked >>

\* Environment::evaluate, from the call to its return
EvaluateWhole ==
    /\ asked.fn = "descend"
    /\ got = NoCall
    /\ got' = [at |-> "returned", r |-> env_evaluate(asked.env, asked.name, EmptyMap)]
    /\ UNCHANGED << machine, asked >>

DescentNext == EvaluateVariable \/ RootSolve \/ EvaluateRoot \/ EvaluateWhole

DescentSpec == DescentInit /\ [][DescentNext]_vars

\* the evaluation is inside a root-find
Descending == asked.fn = "descend" /\ got # NoCall /\ got.at \in {"variable", "root"}

\* C23: in an environment with no user-defined function, the equations
\* being root-solved on one branch of Environment::evaluate are the visited
\* stack of the frame and have pairwise distinct ids, so the root-finds nest
\* at most as deep as there are equations; and the evaluation as a whole
\* returns a value or an error.
C23_RootFindsNestBounded ==
    /\ Descending =>
         /\ got.frame.stack = { got.solving[i] : i \in DOMAIN got.solving }
         /\ \A i, j \in DOMAIN got.solving : got.solving[i] = got.solving[j] => i = j
         /\ Len(got.solving) <= Len(asked.env.equations)
    /\ (asked.fn = "descend" /\ got # NoCall /\ got.at = "returned") =>
         \/ got.r.ok
         \/ got.r.kind.tag \in {"UnsatisfiedVariable", "RootFindingDepthExceeded"}

\* a = b ; b = a: the root-find of b = a inside the root-find of a = b has
\* reached a again, and no equation is left to solve it
C23_Witness ==
    /\ Descending
    /\ got.at = "variable"
    /\ got.name = NameOf("a")
    /\ asked.env.equations # <<>>
    /\ Len(got.solving) = Len(asked.env.equations)
    /\ ~Has(got.frame.local, got.name)
    /\ \A k \in DOMAIN asked.env.equations :
         /\ NameOf("a") \in asked.env.equations[k].dependencies
         /\ visited(got.frame, asked.env.equations[k])

\* ---------------------------------------------------------------------------
\* the memo of a frame family
\* ---------------------------------------------------------------------------

\* y = x + x ; x = 2
EnvNested ==
    << Cmp(Var(NameOf("y")), Arith("Add", Var(NameOf("x")), Var(NameOf("x")))),
       Cmp(Var(NameOf("x")), Num(Two)) >>

\* Frame.local of the later lookup
FamilyLocals == EvalLocals \cup { Insert(EmptyMap, NameOf("x"), Seven) }

\* one Environment::evaluate call, and a later lookup of the Variable `later`
\* in a frame of any stack and any local that shares the memo of the call
FamilyQueries ==
    [fn : {"family"},
     env : EvalEnvironments \cup {build(EnvNested, BuiltinFunctions, EvalConstants)},
     name : EvalNames, overrides : EvalMemos,
     later : EvalNames, stack : EvalStacks, local : FamilyLocals]

FamilyInit ==
    /\ Library
    /\ asked \in FamilyQueries
    /\ got = NoCall

\* Environment::evaluate, with the memo as the evaluation leaves it
EvaluateFirst ==
    /\ asked.fn = "family"
    /\ got = NoCall
    /\ got' = [at |-> "first",
               e |-> evaluate(Var(asked.name),
                              [environment |-> asked.env, stack |-> {},
                               local |-> EmptyMap],
                              asked.overrides)]
    /\ UNCHANGED << machine, asked >>

\* evaluate of a Variable in a frame that holds the same memo handle
EvaluateLater ==
    /\ asked.fn = "family"
    /\ got # NoCall
    /\ got.at = "first"
    /\ got' = [at |-> "later", e |-> got.e,
               again |-> evaluate(Var(asked.later),
                                  [environment |-> asked.env, stack |-> asked.stack,
                                   local |-> asked.local],
                                  got.e.memo)]
    /\ UNCHANGED << machine, asked >>

FamilyNext == EvaluateFirst \/ EvaluateLater

FamilySpec == FamilyInit /\ [][FamilyNext]_vars

\* the memo binding of v was written by a root-find of the call
Memoised(v) ==
    /\ asked.fn = "family"
    /\ got # NoCall
    /\ Has(got.e.memo, v)
    /\ ~Has(asked.overrides, v)

\* C24: a Variable that Environment::evaluate resolved by a root-find is
\* bound in the shared memo when the root-find has returned, and a later
\* evaluation of a Variable the memo binds through a root-find, in a frame of
\* any stack whose local does not bind it, returns the memo binding and
\* leaves the memo as it is: no root-find runs.
C24_MemoisedIsLookedUp ==
    /\ ( /\ asked.fn = "family"
         /\ got # NoCall
         /\ got.e.r.ok
         /\ ~Has(asked.overrides, asked.name)
         /\ ~Has(asked.env.constants, asked.name) )
       => Memoised(asked.name)
    /\ ( /\ Memoised(asked.later)
         /\ got.at = "later"
         /\ ~Has(asked.local, asked.later) )
       => got.again = Ret(Ok(got.e.memo[asked.later]), got.e.memo)

\* y = x + x ; x = 2: the evaluation of y has memoised x, and x is looked
\* up later in a frame that is solving both equations and binds another local
C24_Witness ==
    /\ Memoised(NameOf("x"))
    /\ got.at = "later"
    /\ asked.name = NameOf("y")
    /\ asked.later = NameOf("x")
    /\ asked.stack = {0, 1}
    /\ asked.local # EmptyMap
    /\ ~Has(asked.local, NameOf("x"))
    /\ got.e.r = Ok(Four)
    /\ got.again.r = Ok(Two)

\* the equations pushed so far, or returned
BuiltEquations ==
    IF got.at = "returned" THEN got.r.val.equations ELSE got.st.equations

\* build is in its loop, has panicked in it, or has returned an Environment
Building ==
    /\ asked.fn = "build"
    /\ got # NoCall
    /\ got.at \in {"loop", "panicked", "returned"}
    /\ got.at = "returned" => got.r.ok

\* C25: build does not panic on its id counter, and the equations have
\* the ids 0, 1, 2, ... in source order, pairwise distinct, for any number
\* of equations.
C25_IdsInSourceOrder ==
    Building =>
      /\ got.at # "panicked"
      /\ \A i \in DOMAIN BuiltEquations : BuiltEquations[i].id = i - 1
      /\ \A i, j \in DOMAIN BuiltEquations :
           BuiltEquations[i].id = BuiltEquations[j].id => i = j

\* what build does: the ids count modulo U8_RANGE when the build has no
\* overflow checks, and with them `id += 1` panics after the equation of id
\* U8_RANGE - 1 is pushed
C25_IdsWrapOrPanic ==
    Building =>
      /\ \A i \in DOMAIN BuiltEquations : BuiltEquations[i].id = (i - 1) % U8_RANGE
      /\ got.at = "panicked" <=>
           (asked.overflow_checks /\ Len(BuiltEquations) = U8_RANGE)

\* the build without overflow checks has returned more than U8_RANGE
\* equations: the first and the one after U8_RANGE have the id 0
C25_Witness ==
    /\ Building
    /\ got.at = "returned"
    /\ ~asked.overflow_checks
    /\ Len(BuiltEquations) > U8_RANGE
    /\ BuiltEquations[1].id = 0
    /\ BuiltEquations[U8_RANGE + 1].id = 0

\* the kind of the last probe: its evaluate calls are `calls`
ProbedKind == probes[Len(probes)].kind

\* C26: in every evaluate call of a probe, the overrides bind the basis
\* the call works on to 1 and every other basis of the kind to 0: no call
\* sees two bases of the kind at 1.
C26_OneBasisAtOne ==
    (probes # <<>> /\ calls # <<>>) =>
      \A c \in DOMAIN calls :
        \A j \in 1..Dof(ProbedKind) :
          /\ Has(calls[c].overrides, Bases(ProbedKind)[j].name)
          /\ calls[c].overrides[Bases(ProbedKind)[j].name] =
               IF j = calls[c].basis THEN One ELSE Zero

\* a linear probe has made the call of hatj after the call of hati
C26_Witness ==
    /\ probes # <<>>
    /\ ProbedKind = "Linear"
    /\ Len(calls) = LINEAR_DOF
    /\ calls[1].basis = 1
    /\ calls[2].basis = 2
    /\ calls[2].overrides[<<"h", "a", "t", "i">>] = Zero
    /\ calls[2].overrides[<<"h", "a", "t", "j">>] = One

\* the directions of the two segments are not parallel
Crossing ==
    FSub(FMul(asked.b_basis[1], asked.a_basis[2]),
         FMul(asked.a_basis[1], asked.b_basis[2])) # Zero

\* the point of segment A at t[1], and the point of segment B at t[2]
PointOfA(t) == VPlus(asked.a, VScale(asked.a_basis, t[1]))

PointOfB(t) == VPlus(asked.b, VScale(asked.b_basis, t[2]))

WithinBoth(t) ==
    /\ FGe(t[1], Zero) /\ FLe(t[1], One)
    /\ FGe(t[2], Zero) /\ FLe(t[2], One)

AfterFailedProbe ==
    /\ pc = "idle"
    /\ probes # <<>>
    /\ probes[Len(probes)].outcome = "error"

\* the state of a kind of the body at index j as its integration rule left
\* it in the running tick
IntegratedBy(j, kind) ==
    (CHOOSE r \in { rules[i] : i \in DOMAIN rules } : r.body = j /\ r.kind = kind).after

HasIntegrated(j, kind) ==
    \E i \in DOMAIN rules : rules[i].body = j /\ rules[i].kind = kind

\* the state of a kind of the body at index j is its integrated state
Stays(j, kind) ==
    /\ HasIntegrated(j, kind)
    /\ Selector(kind, bodies[j]) = IntegratedBy(j, kind)

\* the state of a kind of the body at index j is as it was at the call
Untouched(j, kind) ==
    /\ ~HasIntegrated(j, kind)
    /\ Selector(kind, bodies[j]) = Selector(kind, at_start[j])

\* C28: when a probe of the body at index k has failed with an error, tick
\* has returned the error, the bodies before k have their integrated linear
\* and angular states, the body at k has its integrated linear state when
\* the probe was an angular one and is otherwise as it was at the call, the
\* bodies after k are as they were at the call, and the pair loop has not
\* run.
C28_NotRolledBack ==
    AfterFailedProbe =>
      LET last == probes[Len(probes)]
      IN  /\ returned.status = "err"
          /\ failed
          /\ Len(bodies) = Len(at_start)
          /\ \A j \in DOMAIN bodies :
               /\ j < last.body => Stays(j, "Linear") /\ Stays(j, "Angular")
               /\ j = last.body =>
                    /\ IF last.kind = "Angular" THEN Stays(j, "Linear")
                       ELSE Untouched(j, "Linear")
                    /\ Untouched(j, "Angular")
               /\ j > last.body => bodies[j] = at_start[j]
          /\ visits = <<>>
          /\ collisions = <<>>

\* a linear probe of the second body has failed, and the first body is at
\* its integrated state, which is not the state it had at the call
C28_Witness ==
    /\ AfterFailedProbe
    /\ probes[Len(probes)].body = 2
    /\ probes[Len(probes)].kind = "Linear"
    /\ Stays(1, "Linear")
    /\ bodies[1] # at_start[1]
    /\ bodies[2] = at_start[2]

\* no Comparison occurs in the node
RECURSIVE comparison_free(_)
comparison_free(node) ==
    CASE node.type = "Arithmetic" ->
           comparison_free(node.left) /\ comparison_free(node.right)
      [] node.type = "Function" ->
           \A i \in DOMAIN node.args : comparison_free(node.args[i])
      [] node.type = "Comparison" -> FALSE
      [] OTHER -> TRUE

\* a Comparison occurs in the node as its root or not at all
ComparisonAtRootOnly(node) ==
    IF node.type = "Comparison"
    THEN comparison_free(node.left) /\ comparison_free(node.right)
    ELSE comparison_free(node)

\* the ASTs that parse has returned to build: all of them when the loop
\* begins, and those of the sources that parse when build has returned the
\* error of another
ParsedNodes ==
    IF got.at = "loop" /\ got.i = 1
    THEN { got.expressions[i] : i \in DOMAIN got.expressions }
    ELSE IF got.at = "returned" /\ ~got.r.ok
    THEN { r.val : r \in { x \in { parse_all(asked.sources)[i] : i \in DOMAIN asked.sources } :
                              x.ok } }
    ELSE {}

\* C29: in every AST that parse returns a Comparison occurs only as the
\* root; every Equation that build stores has a Comparison root (and the
\* body of every function it stores has no Comparison); and
\* Environment::evaluate on the built environment does not fail with
\* UnexpectedComparison or ExpectedComparison.
C29_ComparisonOnlyAtRoot ==
    (asked.fn = "build" /\ got # NoCall) =>
      /\ \A node \in ParsedNodes : ComparisonAtRootOnly(node)
      /\ (got.at = "returned" /\ got.r.ok) =>
           /\ \A i \in DOMAIN got.r.val.equations :
                /\ got.r.val.equations[i].node.type = "Comparison"
                /\ ComparisonAtRootOnly(got.r.val.equations[i].node)
           /\ \A f \in DOMAIN got.r.val.functions :
                got.r.val.functions[f].kind = "Mathematical" =>
                  comparison_free(got.r.val.functions[f].node)
      /\ got.at = "evaluated" =>
           \/ got.value.ok
           \/ got.value.kind.tag \notin {"UnexpectedComparison", "ExpectedComparison"}

\* "a = b = 1" and "a + 1" have been built, into the one equation a = b, and
\* a has been evaluated: neither b nor a has a value
C29_Witness ==
    /\ asked.fn = "build"
    /\ got # NoCall
    /\ got.at = "evaluated"
    /\ asked.sources = << <<"a", " ", "=", " ", "b", " ", "=", " ", "1">>,
                          <<"a", " ", "+", " ", "1">> >>
    /\ asked.name = NameOf("a")
    /\ Len(got.r.val.equations) = 1
    /\ got.r.val.equations[1].node = Cmp(Var(NameOf("a")), Var(NameOf("b")))
    /\ ~got.value.ok
    /\ got.value.kind.tag = "UnsatisfiedVariable"

\* what the collision response leaves of a body of the pair: everything but
\* its linear velocity, its angular velocity and its linear displacement
ResponseFrame(body) ==
    [name |-> body.name, shape |-> body.shape, properties |-> body.properties,
     linear_acceleration |-> body.linear.acceleration,
     angular_displacement |-> body.angular.displacement,
     angular_acceleration |-> body.angular.acceleration]

\* C30: a step of the pair loop on the pair (A, B) leaves the angular
\* displacement, the accelerations, the properties, the name and the shape of
\* A and of B, and every other body of the engine, as they are: the response
\* changes at most the linear velocity, the angular velocity and the linear
\* displacement of A and of B.
C30_ResponseFrame ==
    [][ pc = "collide" =>
          /\ DOMAIN bodies' = DOMAIN bodies
          /\ \A k \in DOMAIN bodies :
               IF k \in {pair[1], pair[2]}
               THEN ResponseFrame(bodies'[k]) = ResponseFrame(bodies[k])
               ELSE bodies'[k] = bodies[k] ]_vars

\* the first two of three bodies have collided: the response has changed
\* the linear velocity, the angular velocity and the linear displacement of
\* the first, and the third body is as it was when the pair loop began
C30_Witness ==
    /\ hit # NoHit
    /\ Len(bodies) = 3
    /\ hit.i = 1
    /\ hit.j = 2
    /\ pc = "collide"
    /\ pair = <<1, 3>>
    /\ bodies[1] = hit.after[1]
    /\ hit.after[1].linear.velocity # hit.before[1].linear.velocity
    /\ hit.after[1].angular.velocity # hit.before[1].angular.velocity
    /\ hit.after[1].linear.displacement # hit.before[1].linear.displacement
    /\ ResponseFrame(hit.after[1]) = ResponseFrame(hit.before[1])

====
